---- MODULE Spec2Model ----
(***************************************************************************)
(* Model of the bp-automation extraction pipeline.                         *)
(*                                                                         *)
(*   - the Express run endpoints and the three orchestrators               *)
(*     (runFullWorkflow, runProposalWorkflow, runCCMSWorkflow), one action *)
(*     per stage, over the single shared page of browser-manager.js;       *)
(*   - the reph ('Z') relocation loop of krutidevToUnicode, which          *)
(*     extractCCMSTable runs on the Defendent cell of every row;           *)
(*   - downloadAttachments / waitForDownload over the download directory;  *)
(*   - selectByText over the options of a dropdown;                        *)
(*   - the activation of a tab of a detail page;                           *)
(*   - the <li> scraper of the workflow extractors, the row zip of the     *)
(*     table extractors, the Krutidev converter and its classifier, and    *)
(*     the object an orchestrator returns, as functions of their input;    *)
(*   - the poll of the total-cases badge in navigateToBP / navigateToCCMS. *)
(*                                                                         *)
(* JavaScript is single threaded: the code between two awaits is atomic.   *)
(* Every stage function is awaited by its orchestrator, so a stage is one  *)
(* action, and what happens to the page while a stage is suspended is the  *)
(* environment acting between two actions.                                 *)
(***************************************************************************)
EXTENDS Integers, Sequences, FiniteSets, TLC

VARIABLES
    pageOk,     \* browser-manager.js: getPage() returns a handle
    loc,        \* where the shared page is: Dashboard, ModuleLanding, DetailOpen
    run,        \* per HTTP request slot: the orchestrator's locals
    result,     \* per HTTP request slot: the object the orchestrator returned
    dir,        \* the file names in CFG.DOWNLOAD_DIR
    queued,     \* a download the browser was asked for and has not begun to write
    dl,         \* the locals of downloadAttachments / downloadAttachmentsInModal
    sel,        \* a dropdown and the locals of selectByText
    tabs,       \* the tab strip of a detail page and the activations in flight
    fn,         \* a call of a pure function: its input and what it returned
    nav,        \* the locals of navigateToBP / navigateToCCMS and the badge
    bm          \* browser-manager.js: browser, page and the calls in flight

runVars == <<pageOk, loc, run, result>>

dlVars == <<dir, queued, dl>>

selVars == <<sel>>

tabVars == <<tabs>>

fnVars == <<fn>>

navVars == <<nav>>

bmVars == <<bm>>

\* What the actions of one part of the model leave alone.
notRun == <<dlVars, selVars, tabVars, fnVars, navVars, bmVars>>

notDl == <<runVars, selVars, tabVars, fnVars, navVars, bmVars>>

notSel == <<runVars, dlVars, tabVars, fnVars, navVars, bmVars>>

notTab == <<runVars, dlVars, selVars, fnVars, navVars, bmVars>>

notFn == <<runVars, dlVars, selVars, tabVars, navVars, bmVars>>

notNav == <<runVars, dlVars, selVars, tabVars, fnVars, bmVars>>

notBm == <<runVars, dlVars, selVars, tabVars, fnVars, navVars>>

vars == <<pageOk, loc, run, result, dir, queued, dl, sel, tabs, fn, nav, bm>>

(***************************************************************************)
(* Strings are sequences of characters.  The characters the model uses:    *)
(*   "d" "k" "Z"      Krutidev bytes (d = KA, k = AA matra, Z = reph)      *)
(*   "KA" "AA" "E"    U+0915, U+093E, U+090F                               *)
(*   "RA" "VIR"       U+0930, U+094D                                       *)
(*   "," " "          comma, space                                         *)
(*   "undefined"      the text JavaScript yields for  undefined + string   *)
(***************************************************************************)

\* The longest Defendent cell the table stage draws.
MaxCellLen == 2

KdChars == {"d", "k", "Z"}

RECURSIVE StringsUpTo(_, _)
StringsUpTo(chars, n) ==
    IF n = 0 THEN {<<>>}
    ELSE LET shorter == StringsUpTo(chars, n - 1)
         IN  shorter \cup {Append(s, c) : s \in shorter, c \in chars}

DefCells == StringsUpTo(KdChars, MaxCellLen)

\* s.startsWith(f, i - 1), 1-based i
MatchesAt(s, f, i) ==
    /\ i >= 1
    /\ i + Len(f) - 1 <= Len(s)
    /\ SubSeq(s, i, i + Len(f) - 1) = f

\* s.indexOf(f) + 1: the 1-based place of the first occurrence, 0 when absent
IndexOf(s, f) ==
    LET hits == {i \in 1..(Len(s) + 1) : MatchesAt(s, f, i)}
    IN  IF hits = {} THEN 0 ELSE CHOOSE i \in hits : \A j \in hits : i <= j

\* String.prototype.replace with a string pattern: the first occurrence only
ReplaceFirst(s, f, r) ==
    LET i == IndexOf(s, f)
    IN  IF i = 0 THEN s
        ELSE SubSeq(s, 1, i - 1) \o r \o SubSeq(s, i + Len(f), Len(s))

\* replaceAll(str, find, replace): str.split(find).join(replace)
RECURSIVE replaceAll(_, _, _)
replaceAll(str, find, replace) ==
    IF find = <<>> THEN str
    ELSE LET i == IndexOf(str, find)
         IN  IF i = 0 THEN str
             ELSE SubSeq(str, 1, i - 1) \o replace
                  \o replaceAll(SubSeq(str, i + Len(find), Len(str)), find, replace)

\* The entries of MAIN_MAP whose pattern can occur in a text of the model
\* (over KdChars, a comma that the cleanup pass wrote, or the halant key
\* '~'), in the order of the table.
MAIN_MAP == << << <<"Z", "Z">>, <<"Z">> >>,
               << <<",">>, <<"E">> >>,
               << <<"d">>, <<"KA">> >>,
               << <<"k">>, <<"AA">> >>,
               << <<"~">>, <<"VIR">> >> >>

RECURSIVE ApplyMap(_, _, _)
ApplyMap(t, map, i) ==
    IF i > Len(map) THEN t
    ELSE ApplyMap(replaceAll(t, map[i][1], map[i][2]), map, i + 1)

VOWELS_UNICODE == {"AA"}

\* krutidevToUnicode up to the reph loop: the dictionary pass and the
\* virama-before-reph rewrite (the matra loops find nothing to move in a
\* text without 'f').
KdBeforeReph(text) ==
    replaceAll(ApplyMap(text, MAIN_MAP, 1), <<"VIR", "Z">>, <<"Z">>)

\* zRegex.exec(t) with lastIndex = 0, for /(.?)Z/g on a text without line
\* breaks: the leftmost match.  [found, m, last]: m is group 1, last the
\* lastIndex the call leaves.
ZExecMatch(t) ==
    LET p == IndexOf(t, <<"Z">>)
    IN  IF p = 0 THEN [found |-> FALSE, m |-> <<>>, last |-> 0]
        ELSE IF p >= 2 THEN [found |-> TRUE, m |-> <<t[p - 1]>>, last |-> p]
        ELSE IF Len(t) >= 2 /\ t[2] = "Z"
             THEN [found |-> TRUE, m |-> <<"Z">>, last |-> 2]
        ELSE [found |-> TRUE, m |-> <<>>, last |-> 1]

\* The inner while of the reph loop: walk left over vowel signs.  i is the
\* 1-based index (index + 1); t[-1] is undefined in JavaScript.
RECURSIVE ZWalk(_, _, _)
ZWalk(t, i, match) ==
    IF i >= 1 /\ i <= Len(t) /\ t[i] \in VOWELS_UNICODE
    THEN ZWalk(t, i - 1,
               (IF i - 1 >= 1 THEN <<t[i - 1]>> ELSE <<"undefined">>) \o match)
    ELSE match

\* One pass of the body of the reph loop on t, group 1 being m.
ZRewrite(t, m) ==
    LET match == ZWalk(t, IndexOf(t, m \o <<"Z">>), m)
    IN  ReplaceFirst(t, match \o <<"Z">>, <<"RA", "VIR">> \o match)

\* String.prototype.trim, the space being the only white space of the model
RECURSIVE Trim(_)
Trim(s) ==
    IF s # <<>> /\ Head(s) = " " THEN Trim(Tail(s))
    ELSE IF s # <<>> /\ s[Len(s)] = " " THEN Trim(SubSeq(s, 1, Len(s) - 1))
    ELSE s


(***************************************************************************)
(* The run endpoints and the orchestrators.                                *)
(***************************************************************************)

\* The request slots of the server: two clients (the CLI and the web
\* dashboard) can have a POST in flight at the same time.
Reqs == {"r1", "r2"}

Kinds == {"bp", "proposal", "ccms"}

\* The reph loop is synchronous code: while a run is inside it the event loop
\* runs nothing else, no other continuation and no browser event.
SyncPcs == {"zexec", "zbody"}

EventLoopFree == \A q \in Reqs : run[q].pc \notin SyncPcs

IdleRun ==
    [pc |-> "idle", kind |-> "none", act |-> FALSE, navOk |-> FALSE,
     filter |-> "none", tw |-> "none", table |-> "none", rows |-> 0, got |-> {},
     fail |-> "none", lost |-> "none", ran |-> {},
     t |-> <<>>, m |-> <<>>, last |-> 0]

NoResult == [success |-> "absent", error |-> "none", data |-> {}, thrown |-> FALSE]

\* { success: false, error: e }
Failure(e) == [success |-> "false", error |-> e, data |-> {}, thrown |-> FALSE]

\* An exception that leaves the orchestrator: the endpoint's catch answers it.
Thrown == [success |-> "false", error |-> "err", data |-> {}, thrown |-> TRUE]

\* { ...tableResult, error: prefix + openResult.error }
OpenFailure(rec, e) ==
    [success |-> IF rec.table = "ok" THEN "true" ELSE "false",
     error   |-> e,
     data    |-> IF rec.table = "ok" THEN {"rows"} ELSE {},
     thrown  |-> FALSE]

\* The object built at the end of an orchestrator: no success key, no error
\* key, the values the stages returned.
FinalResult(rec) ==
    [success |-> "absent", error |-> "none", data |-> rec.got, thrown |-> FALSE]

MarkLost(rec, st) == IF rec.lost = "none" THEN st ELSE rec.lost

MarkFail(rec, st) == IF rec.fail = "none" THEN st ELSE rec.fail

\* A continuation of run r resumes only when no other run holds the event loop.
Resume(r) == \A q \in Reqs \ {r} : run[q].pc \notin SyncPcs

Continue(r, rec) ==
    /\ Resume(r)
    /\ run' = [run EXCEPT ![r] = rec]
    /\ UNCHANGED <<result, notRun>>

Return(r, rec, res) ==
    /\ Resume(r)
    /\ run' = [run EXCEPT ![r] = [rec EXCEPT !.pc = "done"]]
    /\ result' = [result EXCEPT ![r] = res]
    /\ UNCHANGED <<notRun>>

\* The synchronous head of an orchestrator: const page = bm.getPage();
\* if (!page) return { success: false, error: 'No active session' }.
Begin(r, k, a) ==
    /\ EventLoopFree
    /\ run[r].pc = "idle"
    /\ LET rec == [IdleRun EXCEPT !.kind = k, !.act = a, !.ran = {"start"}]
       IN  IF pageOk
           THEN Continue(r, [rec EXCEPT !.pc = "nav"])
           ELSE Return(r, [rec EXCEPT !.lost = "start"], Failure("No active session"))
    /\ UNCHANGED <<pageOk, loc>>

post_run_workflow(r) == Begin(r, "bp", FALSE)

post_run_proposal(r) == Begin(r, "proposal", FALSE)

post_run_ccms(r) == \E a \in BOOLEAN : Begin(r, "ccms", a)

\* The endpoint answers and the slot is free again.
Respond(r) ==
    /\ EventLoopFree
    /\ run[r].pc = "done"
    /\ run' = [run EXCEPT ![r] = IdleRun]
    /\ result' = [result EXCEPT ![r] = NoResult]
    /\ UNCHANGED <<pageOk, loc, notRun>>

\* browser.on('disconnected'): browser = null; page = null
Disconnected ==
    /\ EventLoopFree
    /\ pageOk
    /\ pageOk' = FALSE
    /\ UNCHANGED <<loc, run, result, notRun>>

\* POST /api/dashboard: Home button or page.goto(DASHBOARD_URL)
post_dashboard ==
    /\ EventLoopFree
    /\ pageOk
    /\ loc # "Dashboard"
    /\ loc' = "Dashboard"
    /\ UNCHANGED <<pageOk, run, result, notRun>>

Outcomes == {"ok", "fail"}

\* navigateToBP / navigateToCCMS, and what the orchestrator does with navResult
Navigate(r, next) ==
    /\ run[r].pc = "nav"
    /\ LET rec == [run[r] EXCEPT !.ran = @ \cup {"nav"}]
       IN  \E o \in Outcomes :
             IF pageOk /\ o = "ok"
             THEN /\ loc' = "ModuleLanding"
                  /\ Continue(r, [rec EXCEPT !.pc = next, !.navOk = TRUE,
                                             !.got = @ \cup {"totalCases"}])
             ELSE /\ loc' = loc
                  /\ Return(r, rec, Failure("err"))
    /\ UNCHANGED pageOk

navigateToBP(r) ==
    /\ run[r].kind \in {"bp", "proposal"}
    /\ Navigate(r, IF run[r].kind = "bp" THEN "filter" ELSE "search")

navigateToCCMS(r) ==
    /\ run[r].kind = "ccms"
    /\ Navigate(r, "filter")

\* applyFilters has no try/catch: a rejected page call leaves the orchestrator
applyFilters(r) ==
    /\ run[r].pc = "filter"
    /\ run[r].kind = "bp"
    /\ LET rec == [run[r] EXCEPT !.ran = @ \cup {"filter"}]
       IN  IF ~pageOk
           THEN Return(r, [rec EXCEPT !.lost = MarkLost(rec, "filter")],
                       Failure("No session"))
           ELSE \E o \in {"ok", "throw"} :
                  IF o = "ok"
                  THEN Continue(r, [rec EXCEPT !.pc = "tablewait"])
                  ELSE Return(r, rec, Thrown)
    /\ UNCHANGED <<pageOk, loc>>

\* applyProposalSearch
applyProposalSearch(r) ==
    /\ run[r].pc = "search"
    /\ run[r].kind = "proposal"
    /\ LET rec == [run[r] EXCEPT !.ran = @ \cup {"filter"}]
       IN  IF ~pageOk
           THEN Return(r, [rec EXCEPT !.lost = MarkLost(rec, "filter")],
                       Failure("No session"))
           ELSE \E o \in Outcomes :
                  IF o = "ok"
                  THEN Continue(r, [rec EXCEPT !.pc = "table"])
                  ELSE Return(r, rec, Failure("err"))
    /\ UNCHANGED <<pageOk, loc>>

\* applyCCMSFilters: { success: true } with the requested filters set
\* ("ok"), or with one left as it was because its dropdown was not found,
\* or { success: false, error } after a page call rejected ("fail").  Its
\* result is not looked at: runCCMSWorkflow goes on to the table wait.
applyCCMSFilters(r) ==
    /\ run[r].pc = "filter"
    /\ run[r].kind = "ccms"
    /\ LET rec == [run[r] EXCEPT !.ran = @ \cup {"filter"}, !.pc = "tablewait"]
       IN  IF ~pageOk
           THEN Continue(r, [rec EXCEPT !.filter = "fail",
                                        !.lost = MarkLost(rec, "filter")])
           ELSE \E o \in {"ok", "fail"} : Continue(r, [rec EXCEPT !.filter = o])
    /\ UNCHANGED <<pageOk, loc>>

\* waitForRows without the hard failure: a timeout is logged and the run
\* goes on with whatever the table holds.
waitForRows_NoHardFail(r) ==
    /\ run[r].pc = "tablewait"
    /\ LET rec == [run[r] EXCEPT !.ran = @ \cup {"tablewait"}, !.pc = "table"]
       IN  \E o \in Outcomes :
             IF pageOk /\ o = "ok"
             THEN Continue(r, [rec EXCEPT !.tw = "ok"])
             ELSE Continue(r, [rec EXCEPT !.tw = "timeout"])
    /\ UNCHANGED <<pageOk, loc>>

\* try { await page.waitForSelector(rows, { timeout: 15_000 }) }
\* catch (_) { return { success: false, error: 'No rows after filter' } }
\* on the page handle taken at the head of the run.
waitForRows(r) ==
    /\ run[r].pc = "tablewait"
    /\ LET rec == [run[r] EXCEPT !.ran = @ \cup {"tablewait"}]
       IN  \E o \in Outcomes :
             IF pageOk /\ o = "ok"
             THEN Continue(r, [rec EXCEPT !.pc = "table", !.tw = "ok"])
             ELSE Return(r, [rec EXCEPT !.tw = "timeout"],
                         Failure("No rows after filter"))
    /\ UNCHANGED <<pageOk, loc>>


\* What a table extractor hands back: 'No session' without a page, else the
\* rows it read or a caught error.
TableOutcomes == {"ok", "fail"}

\* runFullWorkflow, step 3: extractTable; the orchestrator goes on to open
\* row 0 whatever tableResult is.
extractTable(r) ==
    /\ run[r].pc = "table"
    /\ run[r].kind = "bp"
    /\ LET rec == [run[r] EXCEPT !.ran = @ \cup {"table"}, !.pc = "open"]
       IN  IF ~pageOk
           THEN Continue(r, [rec EXCEPT !.table = "nosession",
                                        !.lost = MarkLost(rec, "table"),
                                        !.fail = MarkFail(rec, "table")])
           ELSE \E o \in TableOutcomes, n \in 0..1 :
                  IF o = "ok"
                  THEN Continue(r, [rec EXCEPT !.table = "ok", !.rows = n,
                                               !.got = @ \cup {"rows"}])
                  ELSE /\ n = 0
                       /\ Continue(r, [rec EXCEPT !.table = "fail",
                                                  !.fail = MarkFail(rec, "table")])
    /\ UNCHANGED <<pageOk, loc>>

\* runProposalWorkflow, step 3: extractProposalTable, then
\* if (!firstRow) return { success: false, error: 'No rows found in Proposal List' }
extractProposalTable(r) ==
    /\ run[r].pc = "table"
    /\ run[r].kind = "proposal"
    /\ LET rec == [run[r] EXCEPT !.ran = @ \cup {"table"}]
           none == Failure("No rows found")
       IN  IF ~pageOk
           THEN Return(r, [rec EXCEPT !.table = "nosession",
                                      !.lost = MarkLost(rec, "table"),
                                      !.fail = MarkFail(rec, "table")], none)
           ELSE \E o \in TableOutcomes, n \in 0..1 :
                  IF o = "ok" /\ n = 1
                  THEN Continue(r, [rec EXCEPT !.table = "ok", !.rows = n, !.pc = "open",
                                               !.got = @ \cup {"rows"}])
                  ELSE IF o = "ok"
                  THEN Return(r, [rec EXCEPT !.table = "ok", !.got = @ \cup {"rows"}], none)
                  ELSE /\ n = 0
                       /\ Return(r, [rec EXCEPT !.table = "fail",
                                                !.fail = MarkFail(rec, "table")], none)
    /\ UNCHANGED <<pageOk, loc>>

\* runCCMSWorkflow, step 3: extractCCMSTable up to the conversion of the
\* Defendent cell; without a first row the orchestrator returns
\* { success: false, error: 'No rows found in CCMS Task List' }.
extractCCMSTable(r) ==
    /\ run[r].pc = "table"
    /\ run[r].kind = "ccms"
    /\ LET rec == [run[r] EXCEPT !.ran = @ \cup {"table"}]
           none == Failure("No rows found")
       IN  IF ~pageOk
           THEN Return(r, [rec EXCEPT !.table = "nosession",
                                      !.lost = MarkLost(rec, "table"),
                                      !.fail = MarkFail(rec, "table")], none)
           ELSE \E o \in TableOutcomes, n \in 0..1, cell \in DefCells :
                  IF o = "ok" /\ n = 1 /\ cell # <<>>
                  THEN \* row['Defendent'] = krutidevToUnicode(row['Defendent'])
                       Continue(r, [rec EXCEPT !.rows = n, !.pc = "zexec",
                                               !.t = KdBeforeReph(cell), !.last = 0])
                  ELSE IF o = "ok" /\ n = 1
                  THEN Continue(r, [rec EXCEPT !.table = "ok", !.rows = n, !.pc = "open",
                                               !.got = @ \cup {"rows"}])
                  ELSE IF o = "ok"
                  THEN /\ cell = <<>>
                       /\ Return(r, [rec EXCEPT !.table = "ok", !.got = @ \cup {"rows"}], none)
                  ELSE /\ n = 0 /\ cell = <<>>
                       /\ Return(r, [rec EXCEPT !.table = "fail",
                                                !.fail = MarkFail(rec, "table")], none)
    /\ UNCHANGED <<pageOk, loc>>

\* The reph loop of krutidevToUnicode: while ((zResult = zRegex.exec(t)) !== null).
\* When exec finds nothing the loop is left, the cleanup runs and
\* extractCCMSTable returns its rows.
ZExec(r) ==
    /\ run[r].pc = "zexec"
    /\ LET x == ZExecMatch(run[r].t)
       IN  IF x.found
           THEN Continue(r, [run[r] EXCEPT !.pc = "zbody", !.m = x.m, !.last = x.last])
           ELSE Continue(r, [run[r] EXCEPT !.pc = "open", !.table = "ok",
                                           !.got = @ \cup {"rows"},
                                           !.t = <<>>, !.m = <<>>, !.last = 0])
    /\ UNCHANGED <<pageOk, loc>>

\* The body of the reph loop: relocate, then zRegex.lastIndex = 0.
ZBody(r) ==
    /\ run[r].pc = "zbody"
    /\ Continue(r, [run[r] EXCEPT !.pc = "zexec", !.t = ZRewrite(run[r].t, run[r].m),
                                  !.m = <<>>, !.last = 0])
    /\ UNCHANGED <<pageOk, loc>>

\* Step 4 of the three orchestrators: openRow / openProposalRow / openCCMSRow,
\* and  if (!openResult.success) return { ...tableResult, error: ... }.
OpenFirstRow(r) ==
    /\ run[r].pc = "open"
    /\ LET rec == [run[r] EXCEPT !.ran = @ \cup {"open"}]
       IN  IF ~pageOk
           THEN /\ loc' = loc
                /\ Return(r, [rec EXCEPT !.lost = MarkLost(rec, "open"),
                                         !.fail = MarkFail(rec, "open")],
                          OpenFailure(rec, "Failed to open row: No session"))
           ELSE \E o \in Outcomes :
                  IF o = "ok"
                  THEN /\ loc' = "DetailOpen"
                       /\ Continue(r, [rec EXCEPT !.pc = "heading"])
                  ELSE /\ loc' = loc
                       /\ Return(r, [rec EXCEPT !.fail = MarkFail(rec, "open")],
                                 OpenFailure(rec, "Failed to open row: err"))
    /\ UNCHANGED pageOk

openRow(r) == run[r].kind = "bp" /\ OpenFirstRow(r)

openProposalRow(r) == run[r].kind = "proposal" /\ OpenFirstRow(r)

openCCMSRow(r) == run[r].kind = "ccms" /\ OpenFirstRow(r)

\* A detail-page extractor (heading, case information, workflow, action): a
\* sentinel (null, {}, [], { success: false }) without a page or on a caught
\* error, the value otherwise.  The orchestrator goes on in every case;
\* `last` says that the orchestrator builds its result right after.
Extract(r, st, item, next, last) ==
    /\ run[r].pc = st
    /\ LET rec == [run[r] EXCEPT !.ran = @ \cup {st}, !.pc = next]
       IN  \E o \in Outcomes :
             LET after ==
                   IF ~pageOk
                   THEN [rec EXCEPT !.lost = MarkLost(rec, st), !.fail = MarkFail(rec, st)]
                   ELSE IF o = "ok"
                   THEN [rec EXCEPT !.got = @ \cup {item}]
                   ELSE [rec EXCEPT !.fail = MarkFail(rec, st)]
             IN  /\ ~pageOk => o = "fail"
                 /\ IF last THEN Return(r, after, FinalResult(after))
                            ELSE Continue(r, after)
    /\ UNCHANGED <<pageOk, loc>>

extractHeading(r) ==
    run[r].kind = "bp" /\ Extract(r, "heading", "heading", "workflow", FALSE)

extractWorkflow(r) ==
    run[r].kind = "bp" /\ Extract(r, "workflow", "workflow", "goback", FALSE)

\* runFullWorkflow, step 8 and the return: goBack() leaves the detail page
\* unless the page is gone or the click throws (caught and logged).
goBack(r) ==
    /\ run[r].pc = "goback"
    /\ run[r].kind = "bp"
    /\ LET rec == [run[r] EXCEPT !.ran = @ \cup {"goback"}]
       IN  IF ~pageOk
           THEN /\ loc' = loc
                /\ Return(r, [rec EXCEPT !.lost = MarkLost(rec, "goback")],
                          FinalResult(rec))
           ELSE \E o \in Outcomes :
                  /\ loc' = IF o = "ok" THEN "ModuleLanding" ELSE loc
                  /\ Return(r, rec, FinalResult(rec))
    /\ UNCHANGED pageOk

extractHeadingFromModal(r) ==
    run[r].kind = "proposal" /\ Extract(r, "heading", "heading", "workflow", FALSE)

\* the last stage of runProposalWorkflow: the result is built right after
extractWorkflowInModal(r) ==
    run[r].kind = "proposal" /\ Extract(r, "workflow", "workflow", "done", TRUE)

extractCCMSHeading(r) ==
    run[r].kind = "ccms" /\ Extract(r, "heading", "heading", "caseinfo", FALSE)

extractCaseInformation(r) ==
    run[r].kind = "ccms"
    /\ Extract(r, "caseinfo", "case_information", "workflow", FALSE)

\* step 8 runs only if (params.performAction)
extractCCMSWorkflow(r) ==
    /\ run[r].kind = "ccms"
    /\ IF run[r].act
       THEN Extract(r, "workflow", "workflow", "action", FALSE)
       ELSE Extract(r, "workflow", "workflow", "done", TRUE)

performAction(r) ==
    run[r].kind = "ccms" /\ Extract(r, "action", "action_result", "done", TRUE)

(***************************************************************************)
(* downloadAttachments, downloadAttachmentsInModal and waitForDownload.    *)
(* A file name is the sequence of its parts, the last one its suffix.      *)
(***************************************************************************)

\* The most panels page.$$(ATTACHMENT_PANELS) finds.
MaxPanels == 1

\* The most rows panel.$$('tbody tr') finds.
MaxRows == 2

\* The turns of the polling loop that fit in CFG.DOWNLOAD_TIMEOUT.
MaxPolls == 2

Pdf(n) == <<n, ".pdf">>

\* The name Chrome writes under until the download is complete.
Partial(f) == f \o <<".crdownload">>

\* What is in the directory from an earlier run.
OldFiles == {Pdf("a")}

\* The names the portal serves.
DownloadNames == {Pdf("b"), Pdf("c")}

\* f.endsWith('.crdownload')
EndsWithCrdownload(f) == f # <<>> /\ f[Len(f)] = ".crdownload"

hasCrdownload(current) == \E f \in current : EndsWithCrdownload(f)

hasNew(current, filesBefore) ==
    \E f \in current : f \notin filesBefore /\ ~EndsWithCrdownload(f)

\* The test of waitForDownload without its look at the partial files.
DownloadFinished_AnyNew(current, filesBefore) == hasNew(current, filesBefore)

\* if (hasNew && !hasCrdownload) return;
DownloadFinished(current, filesBefore) ==
    hasNew(current, filesBefore) /\ ~hasCrdownload(current)

IdleDl ==
    [pc |-> "idle", modal |-> FALSE, n |-> 0, i |-> 0, panelFresh |-> FALSE,
     rows |-> 0, r |-> 0, filesBefore |-> {}, polls |-> 0,
     allMeta |-> <<>>, ret |-> "none", left |-> "none"]

\* A row's metadata: meta.downloaded, and how its waitForDownload call ended
\* ("none" when no download was asked for).
Meta(done, w) == [downloaded |-> done, wait |-> w]

\* allMeta.push(meta) and the r++ of the row loop; filesBefore and the count
\* of the turns stay as the last wait left them until the next row is begun.
PushMeta(d, meta) == [d EXCEPT !.allMeta = Append(@, meta), !.r = @ + 1, !.pc = "row"]

\* continue, the end of the panel's body, or the catch (panelErr): i++.
\* `how` is the state the panel is left in: "closed" when it was not there,
\* "open" when it is left expanded, "collapsed" after the collapse at the end
\* of the body, "error" after the catch.
NextPanel(d, how) ==
    [d EXCEPT !.pc = "panel", !.i = @ + 1, !.panelFresh = FALSE, !.rows = 0, !.r = 0,
              !.filesBefore = {}, !.polls = 0, !.left = how]

\* The function up to its panel loop: getPage, the Attachment tab, the wait
\* for the panels, panels = await page.$$(...).
StartDownloads(modal) ==
    /\ dl.pc = "idle"
    /\ \E n \in 0..MaxPanels, o \in Outcomes :
         IF pageOk /\ o = "ok"
         THEN dl' = [IdleDl EXCEPT !.pc = "panel", !.modal = modal, !.n = n, !.i = 1]
         ELSE /\ n = 0
              /\ (~pageOk => o = "fail")
              /\ dl' = [IdleDl EXCEPT !.pc = "done", !.modal = modal, !.ret = "empty"]
    /\ UNCHANGED <<dir, queued, notDl>>

downloadAttachments == StartDownloads(FALSE)

downloadAttachmentsInModal == StartDownloads(TRUE)

\* The head of the panel loop: the re-query, panel = currentPanels[i], the
\* title, headerBtn and its aria-expanded.  After the last panel the function
\* returns { panels: allMeta, files: filesOnDisk }.
PanelHead ==
    /\ dl.pc = "panel"
    /\ IF dl.i > dl.n
       THEN dl' = [dl EXCEPT !.pc = "done", !.ret = "full"]
       ELSE \E o \in {"collapsed", "expanded", "missing", "throw"} :
              /\ ~pageOk => o = "throw"
              /\ dl' = CASE o = "collapsed" -> [dl EXCEPT !.pc = "expand", !.panelFresh = TRUE,
                                                            !.left = "none"]
                         [] o = "expanded"  -> [dl EXCEPT !.pc = "rows", !.panelFresh = TRUE,
                                                            !.left = "none"]
                         [] o = "missing"   -> NextPanel(dl, "closed")
                         [] OTHER           -> NextPanel(dl, "error")
    /\ UNCHANGED <<dir, queued, notDl>>

\* await headerBtn.click(): the panel's body is rendered, and the handle
\* `panel` is from before the change.
ExpandClick ==
    /\ dl.pc = "expand"
    /\ \E o \in {"ok", "throw"} :
         /\ ~pageOk => o = "throw"
         /\ dl' = IF o = "ok" THEN [dl EXCEPT !.pc = "rows", !.panelFresh = FALSE]
                              ELSE NextPanel(dl, "error")
    /\ UNCHANGED <<dir, queued, notDl>>

\* const rows = await panel.$$('tbody tr'); if (rows.length === 0) continue;
\* On a handle from before a change the call may find the rows, find none
\* (the node is detached) or throw.  The `continue` of a panel without rows
\* skips the collapse at the end of the body: the panel stays expanded.
EnumerateRows ==
    /\ dl.pc = "rows"
    /\ \E m \in 0..MaxRows, o \in {"ok", "throw"} :
         /\ ~pageOk => o = "throw"
         /\ o = "throw" => m = 0
         /\ dl' = IF o = "throw" THEN NextPanel(dl, "error")
                  ELSE IF m = 0 THEN NextPanel(dl, "open")
                  ELSE [dl EXCEPT !.pc = "row", !.rows = m, !.r = 1]
    /\ UNCHANGED <<dir, queued, notDl>>

\* One turn of the row loop up to the click: the fresh panels and rows, the
\* row's metadata, the download button, filesBefore, await dlBtn.click().
\* Without a button the row is pushed with downloaded: false.
RowHead ==
    /\ dl.pc = "row"
    /\ IF dl.r > dl.rows
       THEN /\ dl' = [dl EXCEPT !.pc = "collapse", !.filesBefore = {}, !.polls = 0]
            /\ UNCHANGED queued
       ELSE \E o \in {"button", "nobutton", "gone", "throw"}, starts \in BOOLEAN :
              /\ ~pageOk => o = "throw"
              /\ o # "button" => ~starts
              /\ queued' = (queued \/ starts)
              /\ dl' = CASE o = "button" ->
                              [dl EXCEPT !.pc = "wait", !.filesBefore = dir,
                                         !.polls = 0, !.panelFresh = FALSE]
                         [] o = "nobutton" ->
                              PushMeta([dl EXCEPT !.filesBefore = {}, !.polls = 0],
                                       Meta(FALSE, "none"))
                         [] o = "gone"     ->
                              [dl EXCEPT !.pc = "collapse", !.filesBefore = {}, !.polls = 0]
                         [] OTHER          -> NextPanel(dl, "error")
    /\ UNCHANGED <<dir, notDl>>

\* One turn of the loop of waitForDownload(filesBefore), and what its caller
\* does when it returns: downloadCount++; meta.downloaded = true; push.
waitForDownload ==
    /\ dl.pc = "wait"
    /\ IF dl.polls < MaxPolls
       THEN IF DownloadFinished(dir, dl.filesBefore)
            THEN dl' = PushMeta([dl EXCEPT !.polls = @ + 1], Meta(TRUE, "completed"))
            ELSE dl' = [dl EXCEPT !.polls = @ + 1]
       ELSE dl' = PushMeta(dl, Meta(TRUE, "timeout"))
    /\ UNCHANGED <<dir, queued, notDl>>

\* collapseBtn = await panel.$(...), its aria-expanded, the click; a throw
\* is caught by the panel's catch.  The next panel follows in every case.
CollapsePanel ==
    /\ dl.pc = "collapse"
    /\ \E o \in {"ok", "throw"} :
         /\ ~pageOk => o = "throw"
         /\ dl' = NextPanel(dl, IF o = "ok" THEN "collapsed" ELSE "error")
    /\ UNCHANGED <<dir, queued, notDl>>

\* Chrome begins to write a download it was asked for.
DownloadBegins ==
    /\ queued
    /\ \E f \in DownloadNames :
         /\ f \notin dir
         /\ Partial(f) \notin dir
         /\ dir' = dir \cup {Partial(f)}
    /\ queued' = FALSE
    /\ UNCHANGED <<dl, notDl>>

\* Chrome completes a download: the partial file is renamed.
DownloadEnds ==
    /\ \E f \in DownloadNames :
         /\ Partial(f) \in dir
         /\ dir' = (dir \ {Partial(f)}) \cup {f}
    /\ UNCHANGED <<queued, dl, notDl>>

\* cleanupOldFiles(), at the head of every run endpoint: the directory is
\* emptied.
cleanupOldFiles ==
    /\ dir # {}
    /\ dir' = {}
    /\ UNCHANGED <<queued, dl, notDl>>

(***************************************************************************)
(* selectByText                                                            *)
(***************************************************************************)

\* The most options the dropdown holds.
MaxOpts == 2

\* o.value of the options
OptionValues == {<<"1">>, <<"2">>}

\* o.text of the options: the DOM gives it stripped of surrounding white space.
OptionTexts == {<<>>, <<"a">>, <<"b">>, <<"a", "b">>, <<"A", "b">>, <<"b", "a", "b">>}

\* The texts selectByText is called with.
Queries == {<<"a">>, <<"a", "b">>, <<"A", "B">>, <<" ", "a", "b">>,
            <<"b", "b">>, <<"B", "a">>, <<"1">>}

Options == [value : OptionValues, text : OptionTexts]

OptionLists == UNION {[1..n -> Options] : n \in 0..MaxOpts}

\* String.prototype.toLowerCase
LowerChar(c) == CASE c = "A" -> "a" [] c = "B" -> "b" [] OTHER -> c

toLowerCase(str) == [i \in 1..Len(str) |-> LowerChar(str[i])]

\* String.prototype.includes
includes(str, part) == IndexOf(str, part) # 0

\* The least element of a set of indices, 0 for the empty set
FirstOf(S) == IF S = {} THEN 0 ELSE CHOOSE i \in S : \A j \in S : i <= j

\* page.select(selector, value) on a single select: the first option whose
\* value is the one given is selected; 0 when there is none.
SelectByValue(options, value) ==
    FirstOf({i \in 1..Len(options) : options[i].value = value})

\* Array.from(s.options).map(o => ({ value: o.value, text: o.text.trim() }))
ReadOptions(options) ==
    [i \in 1..Len(options) |-> [value |-> options[i].value, text |-> Trim(options[i].text)]]

\* o.text.toLowerCase().includes(norm) || norm.includes(o.text.toLowerCase())
FuzzyMatches(o, norm) ==
    \/ includes(toLowerCase(o.text), norm)
    \/ includes(norm, toLowerCase(o.text))

\* opts.find(...) with norm = text.trim().toLowerCase(): the index, 0 for undefined
FuzzyFind(opts, text) ==
    LET norm == toLowerCase(Trim(text))
    IN  FirstOf({i \in 1..Len(opts) : FuzzyMatches(opts[i], norm)})

IdleSel ==
    [pc |-> "idle", options |-> <<>>, text |-> <<>>, opts |-> <<>>, match |-> 0,
     selected |-> 0, events |-> <<>>, ret |-> "none", why |-> "none"]

\* return false, with the reason that is logged
SelectFalse(why) == [sel EXCEPT !.pc = "done", !.ret = "false", !.why = why]

\* el = await page.$(selector); opts = await page.$eval(...); scrollIntoView
SelectRead ==
    /\ sel.pc = "idle"
    /\ \E o \in {"ok", "notfound", "throw"} :
         sel' = CASE o = "ok" -> [sel EXCEPT !.pc = "exact", !.opts = ReadOptions(sel.options)]
                  [] o = "notfound" -> SelectFalse("notfound")
                  [] OTHER -> SelectFalse("error")
    /\ UNCHANGED <<notSel>>

\* picked = await page.select(selector, text).catch(() => []); without a
\* pick the fuzzy match is looked for, and without a match false is returned.
\* page.select is called with the text before any match is known, and it
\* assigns the selection of the element: with no option of that value none
\* is left selected by the call.
SelectExact ==
    /\ sel.pc = "exact"
    /\ LET picked == SelectByValue(sel.options, sel.text)
           match == FuzzyFind(sel.opts, sel.text)
       IN  sel' = IF picked # 0
                  THEN [sel EXCEPT !.pc = "events", !.selected = picked]
                  ELSE IF match # 0
                  THEN [sel EXCEPT !.pc = "fuzzy", !.match = match, !.selected = 0]
                  ELSE [SelectFalse("nomatch") EXCEPT !.selected = 0]
    /\ UNCHANGED <<notSel>>

\* await page.select(selector, match.value)
SelectFuzzy ==
    /\ sel.pc = "fuzzy"
    /\ \E o \in {"ok", "throw"} :
         sel' = IF o = "ok"
                THEN [sel EXCEPT !.pc = "events",
                                 !.selected = SelectByValue(sel.options, sel.opts[sel.match].value)]
                ELSE SelectFalse("error")
    /\ UNCHANGED <<notSel>>

\* The change and input events for Angular, then return true.
SelectEvents ==
    /\ sel.pc = "events"
    /\ \E o \in {"ok", "throw"} :
         sel' = IF o = "ok"
                THEN [sel EXCEPT !.pc = "done", !.ret = "true",
                                 !.events = <<"change", "input">>]
                ELSE SelectFalse("error")
    /\ UNCHANGED <<notSel>>

(***************************************************************************)
(* Tab activation: clickTab and the inline activations of the extractors.  *)
(***************************************************************************)

\* The tabs the extractors activate; "Details" is the tab a detail page opens on.
Tabs == {"Workflow", "Attachment"}

\* One activation: the tab it is after, the code that runs it, isActive as it
\* was read, whether it clicked, what it returned.
IdleAct ==
    [pc |-> "idle", tab |-> "none", by |-> "none", isActive |-> FALSE,
     clicked |-> FALSE, ret |-> "none"]

\* active: the tab that carries the class 'active'.
IdleTabs == [active |-> "Details", act |-> [r \in Reqs |-> IdleAct]]

SetAct(r, a) == tabs' = [tabs EXCEPT !.act[r] = a]

\* tab = await page.$(tabId), with the XPath fallback; without the tab the
\* function returns false (clickTab) or [] (the extractors).
FindTab(r, tab, by) ==
    /\ tabs.act[r].pc \in {"idle", "done"}
    /\ \E found \in BOOLEAN :
         SetAct(r, IF found
                   THEN [IdleAct EXCEPT !.pc = "check", !.tab = tab, !.by = by]
                   ELSE [IdleAct EXCEPT !.pc = "done", !.tab = tab, !.by = by,
                                        !.ret = "false"])
    /\ UNCHANGED notTab

\* clickTab(tabId, tabName), up to the tab handle
clickTab(r) == \E tab \in Tabs : FindTab(r, tab, "clickTab")

\* extractWorkflowInModal, up to the tab handle
activateModalWorkflow(r) == FindTab(r, "Workflow", "extractWorkflowInModal")

\* extractCCMSWorkflow, up to the tab handle
activateCCMSWorkflow(r) == FindTab(r, "Workflow", "extractCCMSWorkflow")

\* isActive = await page.evaluate(el => el.classList.contains('active'), tab);
\* an active tab is left alone and the activation is over.
CheckActive(r) ==
    /\ tabs.act[r].pc = "check"
    /\ LET a == tabs.act[r]
           isActive == (tabs.active = a.tab)
       IN  SetAct(r, IF isActive
                     THEN [a EXCEPT !.pc = "done", !.isActive = TRUE, !.ret = "true"]
                     ELSE [a EXCEPT !.pc = "click", !.isActive = FALSE])
    /\ UNCHANGED notTab

\* if (!isActive) { await tab.click(); await sleep(2000); }: the click
\* reaches the page and the tab becomes the active one.
ClickTabHandle(r) ==
    /\ tabs.act[r].pc = "click"
    /\ tabs' = [tabs EXCEPT !.active = tabs.act[r].tab,
                            !.act[r] = [@ EXCEPT !.pc = "done", !.clicked = TRUE,
                                                 !.ret = "true"]]
    /\ UNCHANGED notTab

(***************************************************************************)
(* Pure functions: the workflow entry filter, the table zip, the           *)
(* transcoder and its classifier.                                          *)
(***************************************************************************)

IdleFn == [pc |-> "idle", op |-> "none", input |-> <<>>, output |-> <<>>]

\* A call of op on input, about to run.
Call(op, input) == [pc |-> "call", op |-> op, input |-> input, output |-> <<>>]

\* The call returns.
Returns(output) ==
    /\ fn' = [fn EXCEPT !.pc = "done", !.output = output]
    /\ UNCHANGED notFn

(***************************************************************************)
(* The <li> scraper of extractWorkflow, extractWorkflowInModal and         *)
(* extractCCMSWorkflow.  A property of an item that is not set is Absent.  *)
(***************************************************************************)

\* if (rawText.length > 5)
RawTextMin == 5

\* rawText.substring(0, 300)
RawTextMax == 300

\* The longest run of body text of an <li> the model draws.
MaxBody == 302

Absent == <<"absent">>

Null == <<"null">>

\* JavaScript truthiness of a property that is a string, null or not set
Truthy(v) == v \notin {Absent, Null, <<>>}

ProcessNameLabel == <<"P", "r", "o", "c", "e", "s", "s", " ", "N", "a", "m", "e", ":">>

\* n characters of body text
Body(n) == [i \in 1..n |-> "x"]

\* The text of the <h4> once its badges are removed, Absent without an <h4>
H4Texts == {Absent, <<>>, ProcessNameLabel, ProcessNameLabel \o <<" ", "n">>, <<"n">>}

\* The text of the <pre>, Absent without a <pre>
PreTexts == {Absent, <<>>, <<" ">>, <<"r">>}

\* The rest of the text of the <li>
BodyTexts == {Body(n) : n \in 0..MaxBody} \cup {<<" ">> \o Body(RawTextMin) \o <<" ">>}

Lis == [h4 : H4Texts, pre : PreTexts, body : BodyTexts]

Shown(v) == IF v = Absent THEN <<>> ELSE v

\* li.innerText
innerText(li) == Shown(li.h4) \o Shown(li.pre) \o li.body

\* str.substring(0, n)
Substring0(str, n) == SubSeq(str, 1, IF Len(str) < n THEN Len(str) ELSE n)

\* process_name, remarks and raw_text of the item built for one <li>
ScrapeItem(li, min) ==
    LET name == Trim(ReplaceFirst(Shown(li.h4), ProcessNameLabel, <<>>))
        process_name == IF li.h4 = Absent THEN Absent
                        ELSE IF name = <<>> THEN Null ELSE name
        remarks == IF li.pre = Absent THEN Absent ELSE Trim(li.pre)
        rawText == Trim(innerText(li))
        raw_text == IF ~Truthy(process_name) /\ ~Truthy(remarks) /\ Len(rawText) > min
                    THEN Substring0(rawText, RawTextMax)
                    ELSE Absent
    IN  [process_name |-> process_name, remarks |-> remarks, raw_text |-> raw_text]

\* The scraper with a fallback that takes a text of RawTextMin characters too.
ScrapeEntry_ShortRaw(li) ==
    LET item == ScrapeItem(li, RawTextMin - 1)
    IN  IF Truthy(item.process_name) \/ Truthy(item.remarks) \/ Truthy(item.raw_text)
        THEN <<item>> ELSE <<>>

\* What lis.forEach adds to items for one <li>: the item if (hasMeaning)
ScrapeEntry(li) ==
    LET item == ScrapeItem(li, RawTextMin)
    IN  IF Truthy(item.process_name) \/ Truthy(item.remarks) \/ Truthy(item.raw_text)
        THEN <<item>> ELSE <<>>

WorkflowExtractors == {"extractWorkflow", "extractWorkflowInModal", "extractCCMSWorkflow"}

\* timeline = await page.evaluate(...) over a list of one <li>
ScrapeWorkflow ==
    /\ fn.pc = "call"
    /\ fn.op \in WorkflowExtractors
    /\ Returns(ScrapeEntry(fn.input))

(***************************************************************************)
(* krutidevToUnicode, isLikelyKrutidev and autoConvert as functions of     *)
(* their argument.  A call ends in one of three ways: it returns a value   *)
(* (kind "return"), it throws (kind "throw"), or it never comes back       *)
(* (kind "hang").                                                          *)
(***************************************************************************)

Ret(v) == [kind |-> "return", value |-> v]

\* How a call of the function model ends.
Settle(o) ==
    /\ fn' = [fn EXCEPT !.pc = CASE o.kind = "return" -> "done"
                                 [] o.kind = "throw"  -> "thrown"
                                 [] OTHER             -> "hung",
                        !.output = o.value]
    /\ UNCHANGED notFn

\* The reph loop run to its end.  A pass that leaves t as it was is followed
\* by the same pass for ever (lastIndex is reset to 0); a pass that rewrites
\* t takes one 'Z' out of it.
RECURSIVE ZLoop(_)
ZLoop(t) ==
    LET z == ZExecMatch(t)
    IN  IF ~z.found THEN Ret(t)
        ELSE LET next == ZRewrite(t, z.m)
             IN  IF next = t THEN [kind |-> "hang", value |-> <<>>]
                 ELSE ZLoop(next)

\* The entries of UNATTACHED_UNICODE that a text of the model can hold.
UNATTACHED_UNICODE == <<"AA">>

\* for (const matra of UNATTACHED_UNICODE) { ... }
RECURSIVE CleanMatras(_, _)
CleanMatras(t, i) ==
    IF i > Len(UNATTACHED_UNICODE) THEN t
    ELSE LET matra == UNATTACHED_UNICODE[i]
             a == replaceAll(t, <<" ", matra>>, <<matra>>)
             b == replaceAll(a, <<",", matra>>, <<matra, ",">>)
             c == replaceAll(b, <<"VIR", matra>>, <<matra, ",">>)
         IN  CleanMatras(c, i + 1)

\* The cleanup pass and the final trim.
KdCleanup(t) ==
    LET a == CleanMatras(t, 1)
        b == replaceAll(a, <<"VIR", "VIR", "RA">>, <<"VIR", "RA">>)
        c == replaceAll(b, <<"VIR", "RA", "VIR">>, <<"RA", "VIR">>)
        d == replaceAll(c, <<"VIR", "VIR">>, <<"VIR">>)
        e == replaceAll(d, <<"VIR", " ">>, <<" ">>)
    IN  Trim(e)

\* The body of krutidevToUnicode after  if (!text) return text.  Every
\* string method it calls is called on t: on null or undefined the first
\* of them throws a TypeError.
KdConvert(text) ==
    IF text \in {Null, Absent} THEN [kind |-> "throw", value |-> <<"TypeError">>]
    ELSE LET z == ZLoop(KdBeforeReph(text))
         IN  IF z.kind = "return" THEN Ret(KdCleanup(z.value)) ELSE z

\* krutidevToUnicode without its guard
krutidevToUnicode_NoGuard(text) == KdConvert(text)

krutidevToUnicode(text) ==
    IF ~Truthy(text) THEN Ret(text) ELSE KdConvert(text)

\* text.length < 5
MinKrutidevLen == 5

\* (text.match(/[\u0900-\u097F]/g) || []).length
DevanagariCount(text) ==
    Cardinality({i \in 1..Len(text) : text[i] \in {"KA", "AA", "E", "RA", "VIR"}})

\* krutiMarkers.test(text), for the alternatives of the pattern that can
\* occur in a text of the model
krutiMarkers(text) == IndexOf(text, <<"d", "k">>) # 0

\* The classifier without the test of the length.
isLikelyKrutidev_AnyLength(text) ==
    IF ~Truthy(text) THEN Ret(FALSE)
    ELSE IF 10 * DevanagariCount(text) > 3 * Len(text) THEN Ret(FALSE)
    ELSE Ret(krutiMarkers(text))

\* The classifier that excludes a text from 30% of Devanagari on.
isLikelyKrutidev_From30(text) ==
    IF ~Truthy(text) \/ Len(text) < MinKrutidevLen THEN Ret(FALSE)
    ELSE IF 10 * DevanagariCount(text) >= 3 * Len(text) THEN Ret(FALSE)
    ELSE Ret(krutiMarkers(text))

\* devanagariCount > text.length * 0.3 is, for the lengths of the model, the
\* comparison of 10 * devanagariCount with 3 * text.length.
isLikelyKrutidev(text) ==
    IF ~Truthy(text) \/ Len(text) < MinKrutidevLen THEN Ret(FALSE)
    ELSE IF 10 * DevanagariCount(text) > 3 * Len(text) THEN Ret(FALSE)
    ELSE Ret(krutiMarkers(text))

\* autoConvert that converts whatever the classifier says
autoConvert_Always(text) == krutidevToUnicode(text)

autoConvert(text) ==
    IF ~Truthy(text) THEN Ret(text)
    ELSE LET likely == isLikelyKrutidev(text)
         IN  IF likely.kind # "return" THEN likely
             ELSE IF likely.value THEN krutidevToUnicode(text)
             ELSE Ret(text)

\* The longest text over the characters of the model that is converted.
MaxTextLen == 6

\* The most Devanagari characters, and the most digits, of a text built to
\* sit on either side of the 30% line.
MaxDeva == 4

MaxPad == 7

\* The longest text over a consonant, the halant key and the space.
MaxHalantLen == 4

\* The arguments of the converter: null, undefined, the texts over three
\* Krutidev bytes and a digit (which no entry of MAIN_MAP touches), and
\* texts of c Devanagari characters, a word with or without a marker, and
\* p digits, and the texts over 'd', '~' and the space (runs of halants,
\* with or without a space after them).
ConvTexts ==
    LET Rep(ch, n) == [i \in 1..n |-> ch]
    IN  {Null, Absent}
        \cup StringsUpTo({"d", "k", "Z", "1"}, MaxTextLen)
        \cup StringsUpTo({"d", "~", " "}, MaxHalantLen)
        \cup {Rep("KA", c) \o w \o Rep("1", p) :
                 c \in 0..MaxDeva,
                 w \in {<<>>, <<"d", "k">>, <<"k", "d">>},
                 p \in 0..MaxPad}

\* One of the three exported functions is called.
CallConverter ==
    /\ fn.pc = "call"
    /\ fn.op \in {"krutidevToUnicode", "isLikelyKrutidev", "autoConvert", "autoConvert again"}
    /\ Settle(CASE fn.op = "krutidevToUnicode" -> krutidevToUnicode(fn.input)
                [] fn.op = "isLikelyKrutidev"  -> isLikelyKrutidev(fn.input)
                [] OTHER                       -> autoConvert(fn.input))

\* autoConvert(autoConvert(s)): the value a call of autoConvert returned is
\* handed to autoConvert once more.
ConvertAgain ==
    /\ fn.pc = "done"
    /\ fn.op = "autoConvert"
    /\ fn' = Call("autoConvert again", fn.output)
    /\ UNCHANGED notFn

(***************************************************************************)
(* The loop over the timeline that follows the scrape in the three         *)
(* workflow extractors, over a timeline of one item.                       *)
(***************************************************************************)

\* The items the scraper can hand over with fields from `texts`: remarks is the trimmed text of the
\* <pre> when there is one, raw_text is set only without a process name and
\* without remarks and is longer than RawTextMin, and an item has one of the
\* three.
TimelineItems(texts) ==
    {[process_name |-> p, remarks |-> r, raw_text |-> Absent] :
        p \in {Absent, <<"P">>}, r \in texts \ {<<>>}}
    \cup {[process_name |-> <<"P">>, remarks |-> r, raw_text |-> Absent] :
             r \in {Absent, <<>>}}
    \cup {[process_name |-> Absent, remarks |-> r, raw_text |-> t] :
             r \in {Absent, <<>>}, t \in {t \in texts : Len(t) > RawTextMin}}

\* if (item.f && isLikelyKrutidev(item.f)) { [item.f_original = item.f;]
\*     item.f = autoConvert(item.f); }
\* The value of the field and of its _original companion afterwards.
ConvertField(v, keep) ==
    IF Truthy(v) /\ isLikelyKrutidev(v).value
    THEN LET c == autoConvert(v)
         IN  IF c.kind # "return" THEN c
             ELSE Ret([value |-> c.value, original |-> IF keep THEN v ELSE Absent])
    ELSE Ret([value |-> v, original |-> Absent])

\* One turn of `for (const item of timeline)`: extractWorkflow converts
\* remarks and raw_text and stores the originals; extractWorkflowInModal and
\* extractCCMSWorkflow convert remarks only and store no original.
ConvertItem(extractor, item) ==
    LET full == extractor = "extractWorkflow"
        rem == ConvertField(item.remarks, full)
        raw == IF full THEN ConvertField(item.raw_text, TRUE)
               ELSE Ret([value |-> item.raw_text, original |-> Absent])
    IN  IF rem.kind # "return" THEN rem
        ELSE IF raw.kind # "return" THEN raw
        ELSE Ret([process_name |-> item.process_name,
                  remarks |-> rem.value.value,
                  remarks_original |-> rem.value.original,
                  raw_text |-> raw.value.value,
                  raw_text_original |-> raw.value.original])

\* The loop of an extractor over its timeline.
ConvertTimeline ==
    /\ fn.pc = "call"
    /\ fn.op = "convertTimeline"
    /\ Settle(ConvertItem(fn.input.extractor, fn.input.item))

(***************************************************************************)
(* extractSinglePanel of extractCaseInformation: the labeled fields of one *)
(* panel.  A label element is the sequence of what it shows, "#" standing  *)
(* for a hidden id span; a value holder that is not there is Absent.       *)
(***************************************************************************)

\* The most form groups in the body of a panel.
MaxGroups == 2

\* The label elements, the value spans and the .letter-desc elements a form
\* group can carry (the texts of the value holders as trim() leaves them).
FormGroups ==
    [label : {Absent, <<"L">>, <<"#", "L", " ", "*">>, <<"M">>, <<"*">>},
     span : {Absent, <<>>, <<"a">>, <<"b">>},
     desc : {Absent, <<>>, <<"c">>}]

\* cleanLabel(labelEl): the clone without its hidden spans, innerText.trim(),
\* .replace(/\s*\*\s*/g, ''), .replace(/\s+/g, ' '), .trim()
cleanLabel(labelEl) ==
    LET At(str, keep) ==
            [k \in 1..Cardinality(keep) |->
                str[CHOOSE i \in keep : Cardinality({j \in keep : j <= i}) = k]]
        Blank(str, a, b) == \A j \in a..b : str[j] = " "
        ByStar(str, i) ==
            \E j \in 1..Len(str) :
                /\ str[j] = "*"
                /\ IF j < i THEN Blank(str, j + 1, i) ELSE Blank(str, i, j - 1)
        shown == Trim(SelectSeq(labelEl, LAMBDA c : c # "#"))
        starless == At(shown, {i \in 1..Len(shown) : ~ByStar(shown, i)})
        single == At(starless, {i \in 1..Len(starless) :
                                  ~(i > 1 /\ starless[i] = " " /\ starless[i - 1] = " ")})
    IN  Trim(single)

\* data[key] = value
PutField(data, key, value) == {f \in data : f[1] # key} \cup {<<key, value>>}

\* formGroups.forEach(fg => ...) from the group at place i on, every group
\* storing its value whether or not the key has been seen.
RECURSIVE ReadGroups_LastWins(_, _, _)
ReadGroups_LastWins(groups, i, data) ==
    IF i > Len(groups) THEN data
    ELSE LET fg == groups[i]
             key == IF fg.label = Absent THEN <<>> ELSE cleanLabel(fg.label)
         IN  IF key = <<>> THEN ReadGroups_LastWins(groups, i + 1, data)
             ELSE IF fg.span # Absent
             THEN ReadGroups_LastWins(groups, i + 1, PutField(data, key, fg.span))
             ELSE IF Truthy(fg.desc)
             THEN ReadGroups_LastWins(groups, i + 1, PutField(data, key, fg.desc))
             ELSE ReadGroups_LastWins(groups, i + 1, data)

\* formGroups.forEach(fg => ...) from the group at place i on: a group
\* without a label, with an empty key or with a key that is in `seen` is
\* passed over; the value is the text of the span.form-control, else the
\* text of the .letter-desc when that is not empty; the key is added to
\* `seen` (the keys of data) when a value is stored.
RECURSIVE ReadGroups(_, _, _)
ReadGroups(groups, i, data) ==
    IF i > Len(groups) THEN data
    ELSE LET fg == groups[i]
             key == IF fg.label = Absent THEN <<>> ELSE cleanLabel(fg.label)
             seen == {f[1] : f \in data}
         IN  IF key = <<>> \/ key \in seen THEN ReadGroups(groups, i + 1, data)
             ELSE IF fg.span # Absent
             THEN ReadGroups(groups, i + 1, PutField(data, key, fg.span))
             ELSE IF Truthy(fg.desc)
             THEN ReadGroups(groups, i + 1, PutField(data, key, fg.desc))
             ELSE ReadGroups(groups, i + 1, data)

\* if (!targetCard) return data; ...; return data
extractSinglePanel ==
    /\ fn.pc = "call"
    /\ fn.op = "extractSinglePanel"
    /\ Settle(Ret(IF fn.input.card THEN ReadGroups(fn.input.groups, 1, {}) ELSE {}))

(***************************************************************************)
(* extractCaseInformation as a function of the page it reads: the three    *)
(* panels, and whether the session and the page calls hold.                *)
(***************************************************************************)

CaseInfoKeys == {"property_information", "case_details", "gis_coordinates"}

\* A panel of the Case Information tab: not on the page, or a card of at
\* most one form group; one of the values is Krutidev text.
CasePanels ==
    {[card |-> FALSE, groups |-> <<>>], [card |-> TRUE, groups |-> <<>>]}
    \cup {[card |-> TRUE, groups |-> <<[label |-> l, span |-> v, desc |-> Absent]>>] :
             l \in {<<"L">>, <<"M">>},
             v \in {Absent, <<"a">>, <<"1", "1", "1", "d", "k">>}}

\* fault: "nopage" when bm.getPage() gives no page, "throw" when a call on
\* the page rejects; tabWait: how the wait for the active tab ends.
CaseInfoInputs ==
    [fault : {"none", "nopage", "throw"},
     tabWait : {"active", "timeout"},
     property : CasePanels, details : CasePanels, gis : CasePanels]

\* extractSinglePanel(headerText) on the panel with that header
PanelData(panel) == IF panel.card THEN ReadGroups(panel.groups, 1, {}) ELSE {}

\* for (const [key, val] of Object.entries(section))
\*     if (typeof val === 'string' && isLikelyKrutidev(val)) section[key] = autoConvert(val);
ConvertSection(section) ==
    {<<f[1], IF isLikelyKrutidev(f[2]).value THEN autoConvert(f[2]).value ELSE f[2]>> :
        f \in section}

\* extractCaseInformation that leaves out the key of a panel it did not find
CaseInformation_SkipAbsent(in) ==
    IF in.fault # "none" THEN Ret(<<>>)
    ELSE LET panel == [k \in CaseInfoKeys |->
                          CASE k = "property_information" -> in.property
                            [] k = "case_details" -> in.details
                            [] OTHER -> in.gis]
         IN  Ret([k \in {j \in CaseInfoKeys : panel[j].card} |->
                     ConvertSection(PanelData(panel[k]))])

\* if (!page) return {}; the tab and the wait for it (a timeout is caught
\* and logged); the three panels; the conversion of their values; return
\* caseInfo; catch (err) { return {}; }.  A conversion that does not come
\* back keeps the call from returning.
CaseInformation(in) ==
    IF in.fault # "none" THEN Ret(<<>>)
    ELSE LET info == [property_information |-> PanelData(in.property),
                      case_details |-> PanelData(in.details),
                      gis_coordinates |-> PanelData(in.gis)]
             stuck == {f \in UNION {info[k] : k \in CaseInfoKeys} :
                          /\ isLikelyKrutidev(f[2]).value
                          /\ autoConvert(f[2]).kind # "return"}
         IN  IF stuck # {} THEN [kind |-> "hang", value |-> <<>>]
             ELSE Ret([k \in CaseInfoKeys |-> ConvertSection(info[k])])

ReturnCaseInfo ==
    /\ fn.pc = "call"
    /\ fn.op = "extractCaseInformation"
    /\ Settle(CaseInformation(fn.input))

(***************************************************************************)
(* extractTable, extractProposalTable and extractCCMSTable over a table    *)
(* of one body row.                                                        *)
(***************************************************************************)

\* The most header cells, and the most cells of a body row, the model draws.
MaxCols == 3

\* row['Defendent'] and row['Defendant']
DefendentKeys == <<"Defendent", "Defendant">>

TableExtractors == {"extractTable", "extractProposalTable", "extractCCMSTable"}

\* A table and what goes wrong under the extractor that reads it: nothing,
\* no page, a page call that rejects, no Proposal List card.
TableInputs ==
    [headers : StringsUpTo({"A", "B", "Defendent"}, MaxCols),
     cells   : StringsUpTo({<<>>, <<"d">>, <<"k", "Z">>}, MaxCols),
     fault   : {"none", "nopage", "rejects", "nocard"}]

\* headers.forEach((h, i) => { obj[h] = cells[i] || ''; }) from header i on;
\* cells[i] is undefined past the end of the row
RECURSIVE ZipFrom(_, _, _, _)
ZipFrom(headers, cells, i, obj) ==
    IF i > Len(headers) THEN obj
    ELSE LET cell == IF i <= Len(cells) THEN cells[i] ELSE Absent
         IN  ZipFrom(headers, cells, i + 1,
                     [h \in (DOMAIN obj) \cup {headers[i]} |->
                         IF h # headers[i] THEN obj[h]
                         ELSE IF Truthy(cell) THEN cell ELSE <<>>])

\* The zip that stops at the last cell of the row.
ZipRow_CellsOnly(headers, cells) ==
    ZipFrom(SubSeq(headers, 1, IF Len(cells) < Len(headers) THEN Len(cells)
                                                            ELSE Len(headers)),
            cells, 1, <<>>)

\* rawRows.map(cells => { const obj = {}; headers.forEach(...); return obj; })
\* for one row
ZipRow(headers, cells) == ZipFrom(headers, cells, 1, <<>>)

\* if (row[key]) row[key] = krutidevToUnicode(row[key]), for the keys of
\* DefendentKeys from the i-th on
RECURSIVE ConvertDefendent(_, _)
ConvertDefendent(row, i) ==
    IF i > Len(DefendentKeys) THEN Ret(row)
    ELSE LET key == DefendentKeys[i]
         IN  IF key \in DOMAIN row /\ Truthy(row[key])
             THEN LET conv == krutidevToUnicode(row[key])
                  IN  IF conv.kind = "return"
                      THEN ConvertDefendent([row EXCEPT ![key] = conv.value], i + 1)
                      ELSE conv
             ELSE ConvertDefendent(row, i + 1)

\* An extractor, its try block and its catch, over a table whose header
\* cells are in.headers and whose only body row has the cells in.cells.
ExtractRows(op, in) ==
    LET Fail(e) == Ret([success |-> FALSE, error |-> e])
        Ok(row) == Ret([success |-> TRUE, headers |-> in.headers, rows |-> <<row>>])
    IN  IF in.fault = "nopage" THEN Fail("No session")
        ELSE IF in.fault = "rejects" THEN Fail("err")
        ELSE IF in.fault = "nocard" /\ op = "extractProposalTable"
             THEN Fail("Proposal List card not found")
        ELSE LET row == ZipRow(in.headers, in.cells)
             IN  IF op = "extractCCMSTable"
                 THEN LET conv == ConvertDefendent(row, 1)
                      IN  IF conv.kind = "return" THEN Ok(conv.value) ELSE conv
                 ELSE Ok(row)

ExtractTableRows ==
    /\ fn.pc = "call"
    /\ fn.op \in TableExtractors
    /\ Settle(ExtractRows(fn.op, fn.input))

(***************************************************************************)
(* The object an orchestrator returns, as a function of what its stages    *)
(* handed it: runFullWorkflow, runProposalWorkflow and runCCMSWorkflow     *)
(* from the table stage on.                                                *)
(***************************************************************************)

\* The most table rows, and the most workflow entries, a page shows.
MaxShown == 2

Orchestrators == {"runFullWorkflow", "runProposalWorkflow", "runCCMSWorkflow"}

\* shown: the body rows on the page; read: the table extractor read them
\* (it returns { success: false, error } otherwise); opened: the first row
\* opened; entries: the workflow entries the extractor kept; totalCases:
\* what navigation read off the badge.
ResultInputs ==
    [shown : 0..MaxShown, read : BOOLEAN, opened : BOOLEAN,
     entries : 0..MaxShown, totalCases : {Null, <<"0">>, <<"5">>}]

OrchestratorResult(op, in) ==
    LET rows == [i \in 1..in.shown |-> <<"row", i>>]
        tableResult == IF in.read
                       THEN [success |-> TRUE, headers |-> <<"A">>, rows |-> rows]
                       ELSE [success |-> FALSE, error |-> "err"]
        firstRow == IF in.read /\ Len(rows) > 0 THEN rows[1] ELSE Null
        all_rows == IF in.read THEN rows ELSE <<>>
        workflow == [j \in 1..in.entries |-> <<"entry", j>>]
        attachments == [panels |-> <<>>, files |-> <<>>, _skipped |-> TRUE]
    IN  IF op = "runProposalWorkflow" /\ firstRow = Null
        THEN [success |-> FALSE, error |-> "No rows found in Proposal List"]
        ELSE IF op = "runCCMSWorkflow" /\ firstRow = Null
        THEN [success |-> FALSE, error |-> "No rows found in CCMS Task List"]
        ELSE IF ~in.opened
        THEN IF in.read
             THEN [success |-> TRUE, headers |-> <<"A">>, rows |-> rows,
                   error |-> "Failed to open row"]
             ELSE [success |-> FALSE, error |-> "Failed to open row"]
        ELSE CASE op = "runFullWorkflow" ->
                    [heading |-> "h", totalCases |-> in.totalCases,
                     filters_used |-> "filters", first_row |-> firstRow,
                     all_rows |-> all_rows, workflow |-> workflow,
                     attachments |-> attachments]
               [] op = "runProposalWorkflow" ->
                    [mode |-> "proposal", heading |-> "h",
                     totalCases |-> in.totalCases, search_params |-> "params",
                     first_row |-> firstRow, all_rows |-> all_rows,
                     workflow |-> workflow, attachments |-> attachments]
               [] OTHER ->
                    [mode |-> "ccms", heading |-> "h",
                     totalCases |-> in.totalCases, filters_used |-> "filters",
                     first_row |-> firstRow, case_information |-> "info",
                     workflow |-> workflow, action_result |-> Null]

\* The orchestrator returns.
ReturnResult ==
    /\ fn.pc = "call"
    /\ fn.op \in Orchestrators
    /\ Settle(Ret(OrchestratorResult(fn.op, fn.input)))

(***************************************************************************)
(* The run endpoints of the server as a function of what the orchestrator  *)
(* hands back: the test of the result, extracted_data.json, the upload,    *)
(* the answer.                                                             *)
(***************************************************************************)

RunEndpoints == {"/api/run-workflow", "/api/run-proposal", "/api/run-ccms"}

\* What an orchestrator can hand back: a failure object, an exception, the
\* table result with an error added when the first row did not open, or the
\* final object with what the stages collected.
EndpointResults ==
    {Failure(e) : e \in {"No active session", "No rows after filter"}}
    \cup {Thrown}
    \cup {OpenFailure([IdleRun EXCEPT !.table = t], "Failed to open row: err") :
             t \in {"ok", "fail"}}
    \cup {FinalResult([IdleRun EXCEPT !.got = g \cup {"rows"}]) :
             g \in SUBSET {"heading", "workflow", "attachments"}}

\* const result = await run...(); if (result.success === false) return
\* res.status(500).json(result); fs.writeFileSync(...); await
\* uploadToDrive(); res.json({ success: true, data: result }); and the catch
\* that answers 500 for whatever was thrown on the way.
EndpointAnswer(in) ==
    IF in.result.thrown \/ in.result.success = "false" \/ in.write = "throw"
    THEN [status |-> 500, success |-> "false", written |-> FALSE, uploaded |-> FALSE]
    ELSE IF in.upload = "throw"
    THEN [status |-> 500, success |-> "false", written |-> TRUE, uploaded |-> FALSE]
    ELSE [status |-> 200, success |-> "true", written |-> TRUE, uploaded |-> TRUE]

AnswerRun ==
    /\ fn.pc = "call"
    /\ fn.op \in RunEndpoints
    /\ Settle(Ret(EndpointAnswer(fn.input)))

(***************************************************************************)
(* navigateToBP and navigateToCCMS: the wait for View More, the poll of    *)
(* the total-cases badge, the click.  Time is counted in seconds: the      *)
(* poll sleeps one second between two reads.                               *)
(***************************************************************************)

\* while (Date.now() - pollStart < 15_000), in seconds
PollSeconds == 15

\* What the badge shows: no badge element (Absent), '', '0', a count.
BadgeTexts == {Absent, <<>>, <<"0">>, <<"7">>}

IdleNav ==
    [pc |-> "idle", op |-> "none", page |-> TRUE, badge |-> Absent, elapsed |-> 0,
     totalCases |-> Null, timedOut |-> FALSE, clicked |-> FALSE, ret |-> <<>>]

NavReturns(rec, ret) ==
    /\ nav' = [rec EXCEPT !.pc = "done", !.ret = ret]
    /\ UNCHANGED notNav

\* const page = bm.getPage(); if (!page) return { success: false, error:
\* 'No session' }; await page.waitForSelector(VIEW_MORE, { timeout: 15_000 })
NavHead ==
    /\ nav.pc = "start"
    /\ IF ~nav.page
       THEN NavReturns(nav, [success |-> FALSE, error |-> "No session"])
       ELSE \E shows \in BOOLEAN :
              IF shows
              THEN nav' = [nav EXCEPT !.pc = "poll"] /\ UNCHANGED notNav
              ELSE NavReturns(nav, [success |-> FALSE, error |-> "err"])

\* The poll that gives up the navigation when the badge stays empty.
PollBadge_HardFail ==
    /\ nav.pc = "poll"
    /\ IF nav.elapsed < PollSeconds
       THEN LET read == IF nav.badge = Absent THEN Null ELSE nav.badge
            IN  /\ nav' = [nav EXCEPT !.totalCases = read,
                                      !.pc = IF Truthy(read) /\ read # <<"0">>
                                             THEN "click" ELSE "sleep"]
                /\ UNCHANGED notNav
       ELSE NavReturns([nav EXCEPT !.timedOut = TRUE],
                       [success |-> FALSE, error |-> "Total cases not loaded"])

\* The head of the while loop and the read of the badge:
\* totalCases = await page.$eval(...).catch(() => null);
\* if (totalCases && totalCases !== '0' && totalCases !== '') break;
PollBadge ==
    /\ nav.pc = "poll"
    /\ IF nav.elapsed < PollSeconds
       THEN LET read == IF nav.badge = Absent THEN Null ELSE nav.badge
            IN  nav' = [nav EXCEPT !.totalCases = read,
                                   !.pc = IF Truthy(read) /\ read # <<"0">>
                                          THEN "click" ELSE "sleep"]
       ELSE nav' = [nav EXCEPT !.pc = "click", !.timedOut = TRUE]
    /\ UNCHANGED notNav

\* await sleep(1000)
PollSleep ==
    /\ nav.pc = "sleep"
    /\ nav' = [nav EXCEPT !.pc = "poll", !.elapsed = @ + 1]
    /\ UNCHANGED notNav

\* The dashboard fills the badge in, or redraws it, while the poll sleeps.
BadgeLoads ==
    /\ nav.pc = "sleep"
    /\ \E b \in BadgeTexts \ {nav.badge} : nav' = [nav EXCEPT !.badge = b]
    /\ UNCHANGED notNav

\* The click on View More and the return.  Without the button navigateToBP
\* returns '"View More" button not found' and navigateToCCMS the message of
\* the error page.click threw.
ClickViewMore ==
    /\ nav.pc = "click"
    /\ \E found \in BOOLEAN :
          IF found
          THEN NavReturns([nav EXCEPT !.clicked = TRUE],
                          [success |-> TRUE, totalCases |-> nav.totalCases])
          ELSE NavReturns(nav, [success |-> FALSE,
                                error |-> IF nav.op = "navigateToBP"
                                          THEN "View More button not found"
                                          ELSE "err"])

(***************************************************************************)
(* performAction as a function of its params and of the Action tab it      *)
(* finds: what it selects, types and clicks, and what it returns.          *)
(***************************************************************************)

\* params: actionValue, remarks, clickDone (true, false or null); the page:
\* a handle or none, the Action tab (absent, active, inactive), whether
\* page.select rejects, whether the remarks textarea and the Done and Save
\* Draft buttons are there.
ActionInputs ==
    [page : BOOLEAN, tab : {"absent", "active", "inactive"},
     actionValue : {<<>>, <<"473">>}, remarks : {<<>>, <<"r">>},
     clickDone : {"true", "false", "null"},
     selectRejects : BOOLEAN, textarea : BOOLEAN,
     doneBtn : BOOLEAN, saveDraftBtn : BOOLEAN]

\* did: what performAction did to the page, in order; ret: what it returned
ActionEffects(in) ==
    LET tabStep == IF in.tab = "inactive" THEN <<"click Action tab">> ELSE <<>>
        selects == Truthy(in.actionValue)
        typeStep == IF Truthy(in.remarks) /\ in.textarea THEN <<"type remarks">> ELSE <<>>
        submitStep == IF in.clickDone = "true"
                      THEN IF in.doneBtn THEN <<"click Done">> ELSE <<>>
                      ELSE IF in.saveDraftBtn THEN <<"click Save Draft">> ELSE <<>>
    IN  IF ~in.page
        THEN [did |-> <<>>, ret |-> [success |-> FALSE, error |-> "No session"]]
        ELSE IF selects /\ in.selectRejects
        THEN [did |-> tabStep, ret |-> [success |-> FALSE, error |-> "err"]]
        ELSE [did |-> tabStep
                      \o (IF selects THEN <<"select action">> ELSE <<>>)
                      \o typeStep \o submitStep,
              ret |-> [success |-> TRUE, action |-> in.actionValue,
                       remarks |-> in.remarks]]

CallPerformAction ==
    /\ fn.pc = "call"
    /\ fn.op = "performAction"
    /\ Settle(Ret(ActionEffects(fn.input)))

(***************************************************************************)
(* browser-manager.js: the module variables browser and page, launch(),    *)
(* close(), getPage(), isAlive(), and what happens to a browser.  A        *)
(* browser is numbered by the order of puppeteer.launch; its first tab has *)
(* the same number; 0 is null.  Chromium emits 'disconnected' while        *)
(* browser.close() is pending, before the promise resolves.                *)
(***************************************************************************)

\* The most browsers puppeteer.launch starts in a behaviour.
MaxLaunches == 2

\* The requests that can be inside launch() or close() at the same time.
Callers == {"a1", "a2"}

IdleBm ==
    [browser |-> 0, page |-> 0, open |-> {}, closedPages |-> {}, made |-> 0,
     returned |-> {}, call |-> [c \in Callers |-> [pc |-> "idle", b |-> 0]]]

\* getPage(): 0 for null
getPage == IF bm.browser = 0 \/ bm.page = 0 \/ bm.page \in bm.closedPages
           THEN 0 ELSE bm.page

\* isAlive() without the test of page.isClosed()
isAlive_NoClosedTest == bm.browser # 0 /\ bm.page # 0

\* isAlive()
isAlive == bm.browser # 0 /\ bm.page # 0 /\ bm.page \notin bm.closedPages

BmStep(next) == bm' = next /\ UNCHANGED notBm

\* launch() up to its first await: reuse, close the old browser, or start
\* a new one
LaunchHead(c) ==
    /\ bm.call[c].pc = "idle"
    /\ IF isAlive
       THEN BmStep([bm EXCEPT !.returned = @ \cup {bm.page}])
       ELSE /\ bm.made < MaxLaunches
            /\ IF bm.browser # 0
               THEN BmStep([bm EXCEPT !.call[c] = [pc |-> "closing", b |-> bm.browser]])
               ELSE BmStep([bm EXCEPT !.call[c] = [pc |-> "launching", b |-> 0]])

\* await browser.close().catch(() => { }) is over: the browser is gone, its
\* 'disconnected' handler has run; browser = null; page = null; and
\* puppeteer.launch is called
LaunchClosed(c) ==
    /\ bm.call[c].pc = "closing"
    /\ BmStep([bm EXCEPT !.open = @ \ {bm.call[c].b}, !.browser = 0, !.page = 0,
                         !.call[c] = [pc |-> "launching", b |-> 0]])

\* browser = await puppeteer.launch(...); browser.on('disconnected', ...);
\* browser.pages() is called
LaunchResolves(c) ==
    /\ bm.call[c].pc = "launching"
    /\ LET n == bm.made + 1
       IN  BmStep([bm EXCEPT !.made = n, !.open = @ \cup {n}, !.browser = n,
                             !.call[c] = [pc |-> "pages", b |-> n]])

\* page = pages[0]; the CDP session is asked for.  The call rejects when
\* the browser has gone meanwhile.
PagesResolve(c) ==
    /\ bm.call[c].pc = "pages"
    /\ IF bm.call[c].b \in bm.open
       THEN BmStep([bm EXCEPT !.page = bm.call[c].b, !.call[c].pc = "cdp"])
       ELSE BmStep([bm EXCEPT !.call[c] = [pc |-> "idle", b |-> 0]])

\* Page.setDownloadBehavior is set; return page
LaunchReturns(c) ==
    /\ bm.call[c].pc = "cdp"
    /\ IF bm.call[c].b \in bm.open /\ bm.call[c].b \notin bm.closedPages
       THEN BmStep([bm EXCEPT !.returned = @ \cup ({bm.page} \ {0}),
                              !.call[c] = [pc |-> "idle", b |-> 0]])
       ELSE BmStep([bm EXCEPT !.call[c] = [pc |-> "idle", b |-> 0]])

\* close() up to its await
CloseHead(c) ==
    /\ bm.call[c].pc = "idle"
    /\ bm.browser # 0
    /\ BmStep([bm EXCEPT !.call[c] = [pc |-> "closeWait", b |-> bm.browser]])

\* close() after its await: browser = null; page = null
CloseDone(c) ==
    /\ bm.call[c].pc = "closeWait"
    /\ BmStep([bm EXCEPT !.open = @ \ {bm.call[c].b}, !.browser = 0, !.page = 0,
                         !.call[c] = [pc |-> "idle", b |-> 0]])

\* The user closes the tab of browser b.
PageCloses(b) ==
    /\ b \in bm.open
    /\ b \notin bm.closedPages
    /\ BmStep([bm EXCEPT !.closedPages = @ \cup {b}])

\* Browser b exits or loses its connection: its handler runs,
\* browser = null; page = null
BrowserDisconnected(b) ==
    /\ b \in bm.open
    /\ BmStep([bm EXCEPT !.open = @ \ {b}, !.browser = 0, !.page = 0])

(***************************************************************************)
(* Specifications                                                          *)
(***************************************************************************)

Init ==
    /\ pageOk = TRUE
    /\ loc = "Dashboard"
    /\ run = [r \in Reqs |-> IdleRun]
    /\ result = [r \in Reqs |-> NoResult]
    /\ dir = {}
    /\ queued = FALSE
    /\ dl = IdleDl
    /\ sel = IdleSel
    /\ tabs = IdleTabs
    /\ bm = IdleBm
    /\ nav = IdleNav
    /\ fn = IdleFn

RunStep(r) ==
    \/ navigateToBP(r)
    \/ navigateToCCMS(r)
    \/ applyFilters(r)
    \/ applyProposalSearch(r)
    \/ applyCCMSFilters(r)
    \/ waitForRows(r)
    \/ extractTable(r)
    \/ extractProposalTable(r)
    \/ extractCCMSTable(r)
    \/ ZExec(r)
    \/ ZBody(r)
    \/ openRow(r)
    \/ openProposalRow(r)
    \/ openCCMSRow(r)
    \/ extractHeading(r)
    \/ extractWorkflow(r)
    \/ goBack(r)
    \/ extractHeadingFromModal(r)
    \/ extractWorkflowInModal(r)
    \/ extractCCMSHeading(r)
    \/ extractCaseInformation(r)
    \/ extractCCMSWorkflow(r)
    \/ performAction(r)

Request(r) ==
    \/ post_run_workflow(r)
    \/ post_run_proposal(r)
    \/ post_run_ccms(r)
    \/ Respond(r)

\* One client that waits for each answer before it posts again (run.js):
\* its dashboard reset comes after the answer of the run.
Next ==
    \/ Request("r1")
    \/ RunStep("r1")
    \/ Disconnected
    \/ (run["r1"].pc = "idle" /\ post_dashboard)

Spec == Init /\ [][Next]_vars

\* The event loop runs every continuation that is ready.
FairSpec == Spec /\ WF_vars(RunStep("r1"))

\* Any client may post at any time: the endpoints take no lock.
ServerNext ==
    \/ \E r \in Reqs : Request(r)
    \/ \E r \in Reqs : RunStep(r)
    \/ Disconnected
    \/ post_dashboard

ServerSpec == Init /\ [][ServerNext]_vars

\* The attachment downloaders called on a detail page, with the browser
\* writing into the download directory and the endpoints emptying it.
DownloadInit ==
    /\ pageOk = TRUE
    /\ loc = "DetailOpen"
    /\ run = [r \in Reqs |-> IdleRun]
    /\ result = [r \in Reqs |-> NoResult]
    /\ dir \in SUBSET OldFiles
    /\ queued = FALSE
    /\ dl = IdleDl
    /\ sel = IdleSel
    /\ tabs = IdleTabs
    /\ bm = IdleBm
    /\ nav = IdleNav
    /\ fn = IdleFn

DownloadNext ==
    \/ downloadAttachments
    \/ downloadAttachmentsInModal
    \/ PanelHead
    \/ ExpandClick
    \/ EnumerateRows
    \/ RowHead
    \/ waitForDownload
    \/ CollapsePanel
    \/ DownloadBegins
    \/ DownloadEnds
    \/ cleanupOldFiles
    \/ Disconnected

DownloadSpec == DownloadInit /\ [][DownloadNext]_vars

\* selectByText called with any of the texts on any of the dropdowns.
SelectInit ==
    /\ pageOk = TRUE
    /\ loc = "ModuleLanding"
    /\ run = [r \in Reqs |-> IdleRun]
    /\ result = [r \in Reqs |-> NoResult]
    /\ dir = {}
    /\ queued = FALSE
    /\ dl = IdleDl
    /\ tabs = IdleTabs
    /\ bm = IdleBm
    /\ nav = IdleNav
    /\ fn = IdleFn
    /\ \E options \in OptionLists, text \in Queries :
         sel = [IdleSel EXCEPT !.options = options, !.text = text,
                               !.selected = IF options = <<>> THEN 0 ELSE 1]

SelectNext ==
    \/ SelectRead
    \/ SelectExact
    \/ SelectFuzzy
    \/ SelectEvents

SelectSpec == SelectInit /\ [][SelectNext]_vars

\* Tab activations of the runs the server has in flight on the one page.
TabInit ==
    /\ pageOk = TRUE
    /\ loc = "DetailOpen"
    /\ run = [r \in Reqs |-> IdleRun]
    /\ result = [r \in Reqs |-> NoResult]
    /\ dir = {}
    /\ queued = FALSE
    /\ dl = IdleDl
    /\ sel = IdleSel
    /\ tabs = IdleTabs
    /\ bm = IdleBm
    /\ nav = IdleNav
    /\ fn = IdleFn

TabNext ==
    \/ \E r \in Reqs : clickTab(r)
    \/ \E r \in Reqs : activateModalWorkflow(r)
    \/ \E r \in Reqs : activateCCMSWorkflow(r)
    \/ \E r \in Reqs : CheckActive(r)
    \/ \E r \in Reqs : ClickTabHandle(r)

TabSpec == TabInit /\ [][TabNext]_vars

\* Everything but fn and nav as it is when no run is in progress
Quiet ==
    /\ pageOk = TRUE
    /\ loc = "DetailOpen"
    /\ run = [r \in Reqs |-> IdleRun]
    /\ result = [r \in Reqs |-> NoResult]
    /\ dir = {}
    /\ queued = FALSE
    /\ dl = IdleDl
    /\ sel = IdleSel
    /\ tabs = IdleTabs
    /\ bm = IdleBm

\* A workflow extractor scraping any <li>.
WorkflowInit ==
    /\ Quiet
    /\ nav = IdleNav
    /\ \E op \in WorkflowExtractors, li \in Lis : fn = Call(op, li)

WorkflowNext == ScrapeWorkflow

WorkflowSpec == WorkflowInit /\ [][WorkflowNext]_vars

\* One of the three converter functions called on any text.
ConverterInit ==
    /\ Quiet
    /\ nav = IdleNav
    /\ \E op \in {"krutidevToUnicode", "isLikelyKrutidev", "autoConvert"},
          text \in ConvTexts : fn = Call(op, text)

ConverterNext ==
    \/ CallConverter
    \/ ConvertAgain

ConverterSpec == ConverterInit /\ [][ConverterNext]_vars

\* The loop over the timeline of any of the three workflow extractors.
TimelineInit ==
    /\ Quiet
    /\ nav = IdleNav
    /\ \E extractor \in WorkflowExtractors, item \in TimelineItems(ConvTexts \ {Null, Absent}) :
          fn = Call("convertTimeline", [extractor |-> extractor, item |-> item])

TimelineNext == ConvertTimeline

TimelineSpec == TimelineInit /\ [][TimelineNext]_vars

\* extractSinglePanel reading any panel: no card with the header, or a
\* card-body of form groups.
PanelInit ==
    /\ Quiet
    /\ nav = IdleNav
    /\ \E card \in BOOLEAN, n \in 0..MaxGroups :
          /\ ~card => n = 0
          /\ \E groups \in [1..n -> FormGroups] :
                fn = Call("extractSinglePanel", [card |-> card, groups |-> groups])

PanelNext == extractSinglePanel

PanelSpec == PanelInit /\ [][PanelNext]_vars

\* extractCaseInformation on any Case Information tab.
CaseInfoInit ==
    /\ Quiet
    /\ nav = IdleNav
    /\ \E in \in CaseInfoInputs : fn = Call("extractCaseInformation", in)

CaseInfoNext == ReturnCaseInfo

CaseInfoSpec == CaseInfoInit /\ [][CaseInfoNext]_vars

\* A table extractor reading any table of one body row.
TableInit ==
    /\ Quiet
    /\ nav = IdleNav
    /\ \E op \in TableExtractors, in \in TableInputs :
          /\ in.fault = "nocard" => op = "extractProposalTable"
          /\ fn = Call(op, in)

TableNext == ExtractTableRows

TableSpec == TableInit /\ [][TableNext]_vars

\* An orchestrator past its table wait; a row that opened is a row the page
\* shows.
ResultInit ==
    /\ Quiet
    /\ nav = IdleNav
    /\ \E op \in Orchestrators, in \in ResultInputs :
          /\ in.opened => in.shown > 0
          /\ fn = Call(op, in)

ResultNext == ReturnResult

ResultSpec == ResultInit /\ [][ResultNext]_vars

\* A run endpoint with any result of its orchestrator in hand.
EndpointInit ==
    /\ Quiet
    /\ nav = IdleNav
    /\ \E op \in RunEndpoints, res \in EndpointResults, w \in {"ok", "throw"}, u \in {"ok", "throw"} :
          fn = Call(op, [result |-> res, write |-> w, upload |-> u])

EndpointNext == AnswerRun

EndpointSpec == EndpointInit /\ [][EndpointNext]_vars

\* A call of navigateToBP or navigateToCCMS on the dashboard.
NavInit ==
    /\ pageOk = TRUE
    /\ loc = "Dashboard"
    /\ run = [r \in Reqs |-> IdleRun]
    /\ result = [r \in Reqs |-> NoResult]
    /\ dir = {}
    /\ queued = FALSE
    /\ dl = IdleDl
    /\ sel = IdleSel
    /\ tabs = IdleTabs
    /\ bm = IdleBm
    /\ fn = IdleFn
    /\ \E op \in {"navigateToBP", "navigateToCCMS"}, page \in BOOLEAN, b \in BadgeTexts :
          nav = [IdleNav EXCEPT !.pc = "start", !.op = op, !.page = page, !.badge = b]

NavNext ==
    \/ NavHead
    \/ PollBadge
    \/ PollSleep
    \/ BadgeLoads
    \/ ClickViewMore

NavSpec == NavInit /\ [][NavNext]_vars

\* performAction called with any params on any Action tab.
ActionInit ==
    /\ Quiet
    /\ nav = IdleNav
    /\ \E in \in ActionInputs : fn = Call("performAction", in)

ActionNext == CallPerformAction

ActionSpec == ActionInit /\ [][ActionNext]_vars

\* The server before the first login.
BrowserInit ==
    /\ pageOk = TRUE
    /\ loc = "Dashboard"
    /\ run = [r \in Reqs |-> IdleRun]
    /\ result = [r \in Reqs |-> NoResult]
    /\ dir = {}
    /\ queued = FALSE
    /\ dl = IdleDl
    /\ sel = IdleSel
    /\ tabs = IdleTabs
    /\ fn = IdleFn
    /\ nav = IdleNav
    /\ bm = IdleBm

BrowserNext ==
    \/ \E c \in Callers :
          \/ LaunchHead(c)
          \/ LaunchClosed(c)
          \/ LaunchResolves(c)
          \/ PagesResolve(c)
          \/ LaunchReturns(c)
          \/ CloseHead(c)
          \/ CloseDone(c)
    \/ \E b \in 1..MaxLaunches :
          \/ PageCloses(b)
          \/ BrowserDisconnected(b)

BrowserSpec == BrowserInit /\ [][BrowserNext]_vars


(***************************************************************************)
(* Claims                                                                  *)
(***************************************************************************)

InProgress(r) == run[r].pc \notin {"idle", "done"}

\* The stages in the order the orchestrators call them.
StageOrder == <<"start", "nav", "filter", "tablewait", "table", "open",
                "heading", "caseinfo", "workflow", "action", "goback">>

StagePos(st) == CHOOSE i \in 1..Len(StageOrder) : StageOrder[i] = st

AfterTableWait == {"table", "open", "heading", "caseinfo", "workflow", "action", "goback"}

\* C1: at most one extraction run is in progress against the shared page at
\* any time; a second invocation does nothing until the first has returned.
C1_OneRunAtATime == Cardinality({r \in Reqs : InProgress(r)}) <= 1

\* C2: once the table wait has succeeded, a run in which a later stage
\* failed returns a result that carries an error field and all the data the
\* earlier stages collected.
C2_PartialResultWithError ==
    \A r \in Reqs :
        (run[r].pc = "done" /\ run[r].tw = "ok" /\ run[r].fail # "none")
        => /\ result[r].error # "none"
           /\ run[r].got \subseteq result[r].data

\* C3: in runFullWorkflow and runCCMSWorkflow a table wait that times out
\* ends the run with { success: false, error: 'No rows after filter' } and
\* none of the later stages is executed.
C3_TableWaitHardFail ==
    \A r \in Reqs :
        run[r].tw = "timeout"
        => /\ run[r].pc = "done"
           /\ result[r] = Failure("No rows after filter")
           /\ run[r].ran \cap AfterTableWait = {}

C3_Witness ==
    \E r \in Reqs :
        /\ run[r].kind = "ccms"
        /\ run[r].tw = "timeout"
        /\ run[r].pc = "done"
        /\ "filter" \in run[r].ran

SessionLostTags == {"No active session", "No session"}

\* C4: when getPage() returns null at any point of a run, the orchestrator
\* stops there, calls no later stage and returns a session-lost error tag.
C4_SessionLostShortCircuits ==
    \A r \in Reqs :
        (run[r].pc = "done" /\ run[r].lost # "none")
        => /\ result[r].error \in SessionLostTags
           /\ \A st \in run[r].ran : StagePos(st) <= StagePos(run[r].lost)

\* C5: the step that ends a run which got past module navigation leaves the
\* page at module landing.
C5_EndsAtModuleLanding ==
    [][\A r \in Reqs :
          (run[r].pc # "done" /\ run'[r].pc = "done" /\ run'[r].navOk)
          => loc' = "ModuleLanding"]_vars

\* C6: every orchestrator invocation eventually returns a result.
C6_EveryRunReturns ==
    \A r \in Reqs : InProgress(r) ~> (run[r].pc = "done")

\* C7: waitForDownload returns before its timeout only when the directory
\* holds a name that is not in filesBefore and does not end in .crdownload,
\* and holds no name ending in .crdownload; with snapshot {a.pdf} and
\* directory {a.pdf, b.pdf.crdownload} a turn of the loop before the timeout
\* goes on polling.
C7_CompletionOnlyWhenFinished ==
    [][/\ (dl.pc = "wait" /\ dl'.pc # "wait"
           /\ dl'.allMeta[Len(dl'.allMeta)].wait = "completed")
          => /\ \E f \in dir' : f \notin dl.filesBefore /\ ~EndsWithCrdownload(f)
             /\ \A f \in dir' : ~EndsWithCrdownload(f)
       /\ (dl.pc = "wait" /\ dl.polls < MaxPolls /\ dl' # dl
           /\ dl.filesBefore = {Pdf("a")}
           /\ dir = {Pdf("a"), Partial(Pdf("b"))})
          => dl'.pc = "wait"]_vars

\* The wait that began with {a.pdf} has returned before its timeout, after a
\* turn that went on polling, with the directory {a.pdf, b.pdf}.
C7_Witness ==
    /\ dl.pc = "row"
    /\ dl.allMeta # <<>>
    /\ dl.allMeta[Len(dl.allMeta)].wait = "completed"
    /\ dl.filesBefore = {Pdf("a")}
    /\ dir = {Pdf("a"), Pdf("b")}
    /\ dl.polls >= 2

\* C8: a row whose download poll timed out is recorded with downloaded:
\* false, and a row is recorded with downloaded: true only if its download
\* was confirmed complete.
C8_DownloadedOnlyIfConfirmed ==
    \A k \in 1..Len(dl.allMeta) :
        /\ dl.allMeta[k].wait = "timeout" => ~dl.allMeta[k].downloaded
        /\ dl.allMeta[k].downloaded => dl.allMeta[k].wait = "completed"

\* C9: every step that works through the handle `panel` (the enumeration of
\* the rows, the final collapse) is taken with a handle acquired after the
\* last change of the DOM.
C9_NoStaleHandle ==
    [][(dl.pc \in {"rows", "collapse"} /\ dl' # dl) => dl.panelFresh]_vars

\* The option the claim names: the first whose value is the text, else the
\* first in document order whose text contains the query or is contained in
\* it, the two compared without regard to case and surrounding white space.
C10_Expected ==
    LET exact == FirstOf({i \in 1..Len(sel.options) : sel.options[i].value = sel.text})
        query == toLowerCase(Trim(sel.text))
        fuzzy == FirstOf({i \in 1..Len(sel.options) :
                            LET t == toLowerCase(Trim(sel.options[i].text))
                            IN  includes(t, query) \/ includes(query, t)})
    IN  IF exact # 0 THEN exact ELSE fuzzy

\* C10: selectByText selects the option whose value equals the text, else
\* the first option in document order whose text contains the query or is
\* contained in it, compared case-insensitively; a query that differs from
\* an option's text only by letter case succeeds and returns true.
C10_SelectByText ==
    sel.pc = "done" =>
        /\ sel.ret = "true" => (C10_Expected # 0 /\ sel.selected = C10_Expected)
        /\ (/\ sel.why \notin {"notfound", "error"}
            /\ \E i \in 1..Len(sel.options) :
                  /\ sel.options[i].text # sel.text
                  /\ toLowerCase(sel.options[i].text) = toLowerCase(sel.text))
           => sel.ret = "true"

\* C11: a tab is clicked only when it does not carry the active marker: no
\* click of an activation lands on a tab that is already active.
C11_ActiveTabNeverClicked ==
    [][\A r \in Reqs :
          (tabs.act[r].pc = "click" /\ tabs'.act[r].pc = "done")
          => tabs.active # tabs.act[r].tab]_vars

C13_Expected(op, headers, cells, i) ==
    IF i > Len(cells) THEN <<>>
    ELSE IF /\ op = "extractCCMSTable"
            /\ \E k \in 1..Len(DefendentKeys) : DefendentKeys[k] = headers[i]
            /\ cells[i] # <<>>
         THEN krutidevToUnicode(cells[i]).value
         ELSE cells[i]

\* C13: a table extractor never raises, and over a table it can read it
\* returns for the body row a record whose keys are exactly the headers,
\* each header (the last one of that name, when a name is repeated) holding
\* the cell at its own position, and the empty string when the row has
\* fewer cells than that.
C13_RowsZipByPosition ==
    (fn.op \in TableExtractors /\ fn.pc \in {"done", "thrown"}) =>
        /\ fn.pc = "done"
        /\ fn.input.fault = "none" =>
              /\ fn.output.success
              /\ fn.output.headers = fn.input.headers
              /\ Len(fn.output.rows) = 1
              /\ LET headers == fn.input.headers
                     cells == fn.input.cells
                     row == fn.output.rows[1]
                 IN  /\ DOMAIN row = {headers[i] : i \in 1..Len(headers)}
                     /\ \A i \in 1..Len(headers) :
                           (\A j \in (i + 1)..Len(headers) : headers[j] # headers[i])
                           => row[headers[i]] = C13_Expected(fn.op, headers, cells, i)

\* Headers [A, B, Defendent] and a row of two cells: the third key is there
\* and holds the empty string.
C13_Witness ==
    /\ fn.pc = "done"
    /\ fn.op \in TableExtractors
    /\ fn.input.fault = "none"
    /\ fn.input.headers = <<"A", "B", "Defendent">>
    /\ fn.input.cells = << <<"d">>, <<"d">> >>
    /\ fn.output.rows[1] = [h \in {"A", "B", "Defendent"} |->
                               IF h = "Defendent" THEN <<>> ELSE <<"d">>]

\* C14: autoConvert(autoConvert(s)) = autoConvert(s): handed a value that
\* autoConvert returned, autoConvert returns, and returns that value.
C14_AutoConvertIdempotent ==
    (fn.op = "autoConvert again" /\ fn.pc # "call") =>
        /\ fn.pc = "done"
        /\ fn.output = fn.input

\* The second call has returned on a text that the first call converted
\* (a reph was relocated in it).
C14_Witness ==
    /\ fn.op = "autoConvert again"
    /\ fn.pc = "done"
    /\ \E i \in 1..Len(fn.input) : fn.input[i] = "RA"

\* C15: isLikelyKrutidev returns false for a text of which more than 30% of
\* the characters are Devanagari, marker or no marker; a text of exactly 30%
\* is not excluded: with a marker (and five characters or more) it is
\* classified true.
C15_ClassifierBoundary ==
    (fn.op = "isLikelyKrutidev" /\ fn.pc = "done" /\ Truthy(fn.input)) =>
        LET count == DevanagariCount(fn.input)
            length == Len(fn.input)
        IN  /\ 10 * count > 3 * length => fn.output = FALSE
            /\ (/\ 10 * count = 3 * length
                /\ length >= MinKrutidevLen
                /\ krutiMarkers(fn.input)) => fn.output = TRUE

\* A text with a marker and more than 30% of Devanagari has been classified.
C15_Witness ==
    /\ fn.op = "isLikelyKrutidev"
    /\ fn.pc = "done"
    /\ Truthy(fn.input)
    /\ krutiMarkers(fn.input)
    /\ 10 * DevanagariCount(fn.input) > 3 * Len(fn.input)
    /\ fn.output = FALSE

\* C16, as the claim states it: for a text with at most 30% of Devanagari,
\* isLikelyKrutidev returns true if and only if the text holds a marker.
C16_MarkerIffLikely ==
    (/\ fn.op = "isLikelyKrutidev"
     /\ fn.pc = "done"
     /\ Truthy(fn.input)
     /\ 10 * DevanagariCount(fn.input) <= 3 * Len(fn.input))
    => (fn.output = TRUE <=> krutiMarkers(fn.input))

\* C16, amended: for a text of five characters or more with at most 30% of
\* Devanagari, isLikelyKrutidev returns true if and only if the text holds a
\* marker; a text of fewer than five characters is classified false.
C16_MarkerIffLikelyFromFive ==
    (/\ fn.op = "isLikelyKrutidev"
     /\ fn.pc = "done"
     /\ Truthy(fn.input)
     /\ 10 * DevanagariCount(fn.input) <= 3 * Len(fn.input))
    => IF Len(fn.input) >= MinKrutidevLen
       THEN fn.output = TRUE <=> krutiMarkers(fn.input)
       ELSE fn.output = FALSE

\* A text of five characters or more, with some Devanagari but no more than
\* 30%, and a marker, has been classified true.
C16_Witness ==
    /\ fn.op = "isLikelyKrutidev"
    /\ fn.pc = "done"
    /\ Truthy(fn.input)
    /\ Len(fn.input) >= MinKrutidevLen
    /\ DevanagariCount(fn.input) > 0
    /\ 10 * DevanagariCount(fn.input) <= 3 * Len(fn.input)
    /\ krutiMarkers(fn.input)
    /\ fn.output = TRUE

\* C17: no call of krutidevToUnicode, isLikelyKrutidev or autoConvert
\* throws, and krutidevToUnicode and autoConvert return an empty, null or
\* undefined argument as it is.
C17_ConverterNeverThrows ==
    fn.op \in {"krutidevToUnicode", "isLikelyKrutidev", "autoConvert", "autoConvert again"} =>
        /\ fn.pc # "thrown"
        /\ (/\ fn.op # "isLikelyKrutidev"
            /\ fn.pc # "call"
            /\ ~Truthy(fn.input)) => (fn.pc = "done" /\ fn.output = fn.input)

\* krutidevToUnicode(null) has returned null.
C17_Witness ==
    /\ fn.op = "krutidevToUnicode"
    /\ fn.pc = "done"
    /\ fn.input = Null
    /\ fn.output = Null

\* C18: a value that isLikelyKrutidev classifies false is in the result as
\* it was read from the page; for a table, every header holds the cell at
\* its position unchanged when that cell is not detected as Krutidev.
C18_UndetectedTextUnchanged ==
    (/\ fn.op \in TableExtractors
     /\ fn.pc = "done"
     /\ fn.input.fault = "none") =>
        LET headers == fn.input.headers
            cells == fn.input.cells
            row == fn.output.rows[1]
        IN  \A i \in 1..Len(headers) :
               (/\ i <= Len(cells)
                /\ \A j \in (i + 1)..Len(headers) : headers[j] # headers[i]
                /\ isLikelyKrutidev(cells[i]).value = FALSE)
               => row[headers[i]] = cells[i]

\* C19: an orchestrator that completes over a page showing n rows, all read
\* by its table extractor, with m workflow entries kept, returns an object
\* whose all_rows holds the n row records and whose workflow holds the m
\* entries.
C19_ResultHoldsRowsAndWorkflow ==
    (/\ fn.op \in Orchestrators
     /\ fn.pc = "done"
     /\ fn.input.read
     /\ "workflow" \in DOMAIN fn.output) =>
        /\ Len(fn.output.workflow) = fn.input.entries
        /\ "all_rows" \in DOMAIN fn.output
        /\ Len(fn.output.all_rows) = fn.input.shown

\* C20: once the poll of the badge has run out, the last value read is null,
\* '' or '0', navigation goes on to the click on View More, and when it
\* has clicked it returns success with that value as totalCases; a failure
\* it returns after the poll is a failure to find View More.
C20_BadgeTimeoutNotFatal ==
    nav.timedOut =>
        /\ nav.totalCases \in {Null, <<>>, <<"0">>}
        /\ nav.pc \in {"click", "done"}
        /\ nav.pc = "done" =>
              IF nav.clicked
              THEN nav.ret = [success |-> TRUE, totalCases |-> nav.totalCases]
              ELSE /\ ~nav.ret.success
                   /\ nav.ret.error \in {"View More button not found", "err"}
                   /\ nav.ret.error = "err" => nav.op = "navigateToCCMS"

\* The poll ran out on a badge that still showed '0', View More was clicked
\* and navigation returned success with totalCases '0'.
C20_Witness ==
    /\ nav.timedOut
    /\ nav.pc = "done"
    /\ nav.clicked
    /\ nav.elapsed >= PollSeconds
    /\ nav.ret = [success |-> TRUE, totalCases |-> <<"0">>]

\* The steps of performAction that click a submit button
SubmitClicks(did) == {i \in 1..Len(did) : did[i] \in {"click Done", "click Save Draft"}}

\* C21: with clickDone null ('do not click anything') performAction clicks
\* neither Done nor Save Draft.
C21_NoSubmitWithoutPreference ==
    (fn.op = "performAction" /\ fn.pc = "done" /\ fn.input.clickDone = "null")
    => SubmitClicks(fn.output.did) = {}

\* C22: performAction never clicks the Done button, whatever clickDone is.
C22_DoneNeverClicked ==
    (fn.op = "performAction" /\ fn.pc = "done")
    => \A i \in 1..Len(fn.output.did) : fn.output.did[i] # "click Done"

\* C23: in every state launch, close, a closed page and a disconnected
\* browser can lead to, isAlive() is true exactly when getPage() returns a
\* page.
C23_AliveIffPage == isAlive <=> getPage # 0

\* A launched browser whose tab was closed: not alive, no page.
C23_Witness ==
    /\ bm.browser # 0
    /\ bm.page # 0
    /\ bm.page \in bm.closedPages
    /\ ~isAlive
    /\ getPage = 0

\* C26: at most one browser is live, and a page launch() returned is what
\* getPage() returns for as long as its browser is live and the page open.
C26_OneLiveSession ==
    /\ Cardinality(bm.open) <= 1
    /\ \A p \in bm.returned :
          (p \in bm.open /\ p \notin bm.closedPages) => getPage = p

\* C24: every call of krutidevToUnicode comes back: no input sends one of
\* its relocation loops round for ever.
C24_ConverterTerminates ==
    fn.op = "krutidevToUnicode" => fn.pc # "hung"

\* C25: a CCMS run reaches performAction only after applyCCMSFilters has
\* applied every filter it was asked for.
C25_ActionOnlyOnFilteredList ==
    \A r \in Reqs :
        (run[r].kind = "ccms" /\ (run[r].pc = "action" \/ "action" \in run[r].ran))
        => run[r].filter = "ok"

\* C27: when selectByText returns true a change event and then an input
\* event have been dispatched on the dropdown; when it finds no matching
\* option it returns false, leaves the value of the dropdown as it was and
\* dispatches no event.
C27_SelectEvents ==
    [][/\ (sel.ret # "true" /\ sel'.ret = "true")
          => sel'.events = <<"change", "input">>
       /\ (sel.why # "nomatch" /\ sel'.why = "nomatch")
          => /\ sel'.ret = "false"
             /\ sel'.events = <<>>
             /\ sel'.selected = sel.selected]_vars

\* C28: after the download function has finished with a panel, the panel is
\* collapsed again: no panel that the run found or made expanded is left
\* expanded when the next panel is looked up, whatever the number of its
\* file rows.
C28_PanelRecollapsed == dl.pc = "panel" => dl.left # "open"

\* C29: in every workflow extractor, a remarks or raw_text field that is
\* classified as legacy-encoded is replaced by its converted value and the
\* original is kept beside it in the entry; a field that is not classified
\* so is left as it was and gets no original copy.
C29_OriginalKeptBesideConverted ==
    (fn.pc = "done" /\ fn.op = "convertTimeline") =>
        LET item == fn.input.item
            out == fn.output
            Likely(v) == Truthy(v) /\ isLikelyKrutidev(v).value
            Holds(v, now, original) ==
                IF Likely(v) THEN now = autoConvert(v).value /\ original = v
                             ELSE now = v /\ original = Absent
        IN  /\ Holds(item.remarks, out.remarks, out.remarks_original)
            /\ Holds(item.raw_text, out.raw_text, out.raw_text_original)

\* The cleaned labels of the form groups of the panel, in document order
\* (empty for a group without a label).
C30_Keys ==
    [i \in 1..Len(fn.input.groups) |->
        IF fn.input.groups[i].label = Absent THEN <<>>
        ELSE cleanLabel(fn.input.groups[i].label)]

\* Whether the form group at place i holds a value, and which.
C30_Valued(i) ==
    LET fg == fn.input.groups[i]
    IN  fg.span # Absent \/ fg.desc \notin {Absent, <<>>}

C30_Value(i) ==
    LET fg == fn.input.groups[i]
    IN  IF fg.span # Absent THEN fg.span ELSE fg.desc

\* C30 as stated: for every cleaned label only the first form group in
\* document order carrying it can contribute to the mapping.
C30_FirstSeenOnly ==
    (fn.pc = "done" /\ fn.op = "extractSinglePanel") =>
        LET key == C30_Keys
        IN  \A f \in fn.output :
                LET first == FirstOf({i \in DOMAIN key : key[i] = f[1]})
                IN  first # 0 /\ C30_Valued(first) /\ f[2] = C30_Value(first)

\* C30: within one panel duplicate labels are collapsed to the first one
\* that holds a value: for every cleaned label the mapping holds the value
\* of the first form group in document order that carries the label and
\* holds a value, no later form group with the label overwrites it, and a
\* label none of whose form groups holds a value is not in the mapping; a
\* panel that is not found gives the empty mapping.
C30_FirstValuedOnly ==
    (fn.pc = "done" /\ fn.op = "extractSinglePanel") =>
        LET key == C30_Keys
            valued == {i \in DOMAIN key : key[i] # <<>> /\ C30_Valued(i)}
            firsts == {i \in valued : \A j \in valued : key[j] = key[i] => i <= j}
        IN  /\ fn.output = {<<key[i], C30_Value(i)>> : i \in firsts}
            /\ ~fn.input.card => fn.output = {}

\* Two form groups with the same cleaned label and different values were
\* read: the mapping holds the value of the first.
C30_Witness ==
    /\ fn.pc = "done"
    /\ fn.op = "extractSinglePanel"
    /\ Len(fn.input.groups) = 2
    /\ fn.input.groups[1].label # fn.input.groups[2].label
    /\ C30_Keys[1] = C30_Keys[2]
    /\ C30_Valued(1) /\ C30_Valued(2)
    /\ C30_Value(1) # C30_Value(2)
    /\ fn.output = {<<C30_Keys[1], C30_Value(1)>>}

\* C31 as stated: extractCaseInformation always returns the three mappings,
\* and a panel that is not on the page gives an empty mapping, never a
\* missing key.
C31_AlwaysThreeMappings ==
    (fn.pc = "done" /\ fn.op = "extractCaseInformation") =>
        /\ DOMAIN fn.output = CaseInfoKeys
        /\ ~fn.input.property.card => fn.output.property_information = {}
        /\ ~fn.input.details.card => fn.output.case_details = {}
        /\ ~fn.input.gis.card => fn.output.gis_coordinates = {}

\* C31: with a session and no rejected page call extractCaseInformation
\* returns the three mappings property_information, case_details and
\* gis_coordinates, a panel that is not on the page giving an empty mapping
\* and never a missing key, whether or not the wait for the tab timed out;
\* without a session, or when a page call rejects, it returns the empty
\* object.
C31_ThreeMappingsOrEmptyObject ==
    (fn.pc = "done" /\ fn.op = "extractCaseInformation") =>
        IF fn.input.fault = "none"
        THEN /\ DOMAIN fn.output = CaseInfoKeys
             /\ ~fn.input.property.card => fn.output.property_information = {}
             /\ ~fn.input.details.card => fn.output.case_details = {}
             /\ ~fn.input.gis.card => fn.output.gis_coordinates = {}
        ELSE fn.output = <<>>

\* The Case Information tab was read with one panel missing and another
\* holding a field: the missing one is an empty mapping in the result.
C31_Witness ==
    /\ fn.pc = "done"
    /\ fn.op = "extractCaseInformation"
    /\ fn.input.fault = "none"
    /\ ~fn.input.details.card
    /\ fn.output.case_details = {}
    /\ fn.output.property_information # {}

\* C32: selectByText never selects by its fuzzy match an option whose
\* visible text is empty, and a non-empty query that equals no option's
\* value and matches the text of no option with a text makes selectByText
\* return false.
C32_NoPlaceholderMatch ==
    sel.pc = "done" =>
        /\ (sel.ret = "true" /\ sel.match # 0) => sel.opts[sel.match].text # <<>>
        /\ (/\ sel.why \notin {"notfound", "error"}
            /\ \A i \in 1..Len(sel.options) :
                  /\ sel.options[i].value # sel.text
                  /\ \/ Trim(sel.options[i].text) = <<>>
                     \/ ~FuzzyMatches([text |-> Trim(sel.options[i].text)],
                                      toLowerCase(Trim(sel.text))))
           => sel.ret = "false"

\* C33: a run endpoint answers success: true, writes extracted_data.json
\* and triggers the upload only for a result without an error field; a
\* result that carries an error is answered as a failure.
C33_ErrorResultIsFailure ==
    (fn.pc = "done" /\ fn.op \in RunEndpoints) =>
        /\ (fn.output.success = "true" \/ fn.output.written \/ fn.output.uploaded)
           => fn.input.result.error = "none"
        /\ fn.input.result.error # "none"
           => (fn.output.status = 500 /\ fn.output.success = "false")

\* C34: the string krutidevToUnicode returns never holds two viramas in a
\* row, nor a virama followed by a space, whatever the input (three or
\* more halants in a row included).
C34_NoDoubledVirama ==
    (fn.pc = "done" /\ fn.op = "krutidevToUnicode") =>
        /\ IndexOf(fn.output, <<"VIR", "VIR">>) = 0
        /\ IndexOf(fn.output, <<"VIR", " ">>) = 0

====
